---- MODULE Spec2Model ----
(***************************************************************************)
(* A model of the OralVis Healthcare backend: the token service, the       *)
(* access-control middleware, the login flow, the upload pipeline and the  *)
(* scan repository queries.                                                *)
(*                                                                         *)
(* Text that the code inspects character by character (emails, patient     *)
(* names, patient ids) is a sequence of one-character strings; text that   *)
(* the code only compares for equality (roles, regions, scan types,        *)
(* passwords, messages) is a TLA+ string.  A missing text field and the    *)
(* empty text are both << >> (or ""): the code only tests them with `!x`.  *)
(*                                                                         *)
(* Node runs a handler without interruption up to its next `await` or      *)
(* asynchronous middleware, so each action below is one such run.          *)
(***************************************************************************)
EXTENDS Integers, Sequences, FiniteSets, TLC

VARIABLES
  users,    \* rows of the users table
  scans,    \* rows of the scans table, in insertion order
  seq,      \* sqlite_sequence of the scans table (AUTOINCREMENT)
  assets,   \* number of images held by the external storage
  now,      \* server clock, in hours
  req,      \* per connection: the request being served and its response
  server,   \* the server process: whether it listens, and what it has logged
  browser   \* the client: localStorage, the route shown and its guard

vars == <<users, scans, seq, assets, now, req, server, browser>>

(***************************************************************************)
(* Bounds of the model.                                                    *)
(***************************************************************************)
MaxTime == 36
UploadHours == 12
TickStep == 12
MaxScans == 2
NumReqs == 2

Reqs == 1..NumReqs

(***************************************************************************)
(* Characters and text.                                                    *)
(***************************************************************************)
LowerLetters ==
  <<"a","b","c","d","e","f","g","h","i","j","k","l","m",
    "n","o","p","q","r","s","t","u","v","w","x","y","z">>

UpperLetters ==
  <<"A","B","C","D","E","F","G","H","I","J","K","L","M",
    "N","O","P","Q","R","S","T","U","V","W","X","Y","Z">>

Digits == {"0","1","2","3","4","5","6","7","8","9"}

Range(s) == {s[i] : i \in DOMAIN s}

IsLower(c) == c \in Range(LowerLetters)
IsUpper(c) == c \in Range(UpperLetters)
IsLetter(c) == IsLower(c) \/ IsUpper(c)
IsDigit(c) == c \in Digits
\* the characters the regular-expression class \s and String.trim() treat as white space
IsSpace(c) == c \in {" ", "\t", "\n"}

IndexIn(seq0, c) == CHOOSE i \in DOMAIN seq0 : seq0[i] = c

toLowerCaseChar(c) == IF IsUpper(c) THEN LowerLetters[IndexIn(UpperLetters, c)] ELSE c
toUpperCaseChar(c) == IF IsLower(c) THEN UpperLetters[IndexIn(LowerLetters, c)] ELSE c

toLowerCase(s) == [i \in 1..Len(s) |-> toLowerCaseChar(s[i])]
\* the character U+00DF (sharp s), one of the characters whose uppercase form
\* is longer than the character itself
eszett == "eszett"

\* String.prototype.toUpperCase(): character by character, with the special
\* casing of Unicode, under which sharp s becomes the two letters SS
RECURSIVE toUpperCase(_)
toUpperCase(s) ==
  IF s = << >> THEN << >>
  ELSE (IF Head(s) = eszett THEN <<"S", "S">> ELSE <<toUpperCaseChar(Head(s))>>)
         \o toUpperCase(Tail(s))

\* String.prototype.trim(): drop the white space at both ends
trim(s) ==
  LET keep == {i \in 1..Len(s) : ~IsSpace(s[i])}
  IN  IF keep = {} THEN << >>
      ELSE LET lo == CHOOSE i \in keep : \A j \in keep : i <= j
               hi == CHOOSE i \in keep : \A j \in keep : i >= j
           IN  SubSeq(s, lo, hi)

\* /^[^\s@]+@[^\s@]+\.[^\s@]+$/
emailRegex(s) ==
  LET plain(a, b) == \A k \in a..b : ~IsSpace(s[k]) /\ s[k] # "@"
  IN  \E i \in 1..Len(s) : \E j \in 1..Len(s) :
        /\ s[i] = "@" /\ s[j] = "."
        /\ 1 < i /\ i + 1 < j /\ j < Len(s)
        /\ plain(1, i - 1) /\ plain(i + 1, j - 1) /\ plain(j + 1, Len(s))

(***************************************************************************)
(* Seeded accounts (database/init.js) and the password hash.               *)
(***************************************************************************)
technicianEmail ==
  <<"t","e","c","h","n","i","c","i","a","n","@","o","r","a","l","v","i","s",".","c","o","m">>
dentistEmail ==
  <<"d","e","n","t","i","s","t","@","o","r","a","l","v","i","s",".","c","o","m">>
\* a further technician account already present in the users table
secondTechnicianEmail ==
  <<"t","e","c","h","2","@","o","r","a","l","v","i","s",".","c","o","m">>

bcryptCost == 10

\* bcrypt.hashSync(password, 10): one way, equal only for equal passwords
bcryptHash(p) == [alg |-> "bcrypt", cost |-> bcryptCost, of |-> p]

\* bcrypt.compare(s, hash): rejects (throws) unless s is a string
bcryptCompare(pw, hash) ==
  IF pw.type # "string" THEN "throw"
  ELSE IF bcryptHash(pw.val) = hash THEN "match" ELSE "mismatch"

SeededUsers ==
  { [id |-> 1, email |-> technicianEmail, password |-> bcryptHash("technician123"),
     role |-> "Technician"],
    [id |-> 2, email |-> dentistEmail, password |-> bcryptHash("dentist123"),
     role |-> "Dentist"] }

\* init.js seeds only an empty users table and leaves any other table as it
\* finds it, so the server may also run on a table that holds more accounts.
ExtraUser ==
  [id |-> 3, email |-> secondTechnicianEmail, password |-> bcryptHash("tech2pass"),
   role |-> "Technician"]

UsersTables == {SeededUsers, SeededUsers \cup {ExtraUser}}

(***************************************************************************)
(* Token service: jsonwebtoken sign and verify.                            *)
(***************************************************************************)
TokenTTL == 24
NoNbf == -1
JWT_SECRET == "JWT_SECRET"

NoToken ==
  [form |-> "none", sig |-> "", id |-> 0, email |-> << >>, role |-> "",
   iat |-> 0, exp |-> 0, nbf |-> NoNbf, iss |-> "", aud |-> ""]

\* the token signed with expiresIn: '12h'
jwtSignHalfDay(payload, secret, t) ==
  [form |-> "jwt", sig |-> secret, id |-> payload.id, email |-> payload.email,
   role |-> payload.role, iat |-> t, exp |-> t + (TokenTTL \div 2), nbf |-> NoNbf,
   iss |-> "oralvis-healthcare", aud |-> "oralvis-users"]

\* jwt.sign(payload, secret, {expiresIn: '24h', issuer, audience}) at time t
jwtSign(payload, secret, t) ==
  [form |-> "jwt", sig |-> secret, id |-> payload.id, email |-> payload.email,
   role |-> payload.role, iat |-> t, exp |-> t + TokenTTL, nbf |-> NoNbf,
   iss |-> "oralvis-healthcare", aud |-> "oralvis-users"]

\* jwt.verify(token, secret) at time t: the decoded payload or the error's name.
\* The library checks the structure, then the signature, then nbf, then exp.
jwtVerify(token, secret, t) ==
  LET fail(n) == [name |-> n, id |-> 0, email |-> << >>, role |-> ""]
  IN  IF token.form # "jwt" THEN fail("JsonWebTokenError")
      ELSE IF token.sig # secret THEN fail("JsonWebTokenError")
      ELSE IF token.nbf # NoNbf /\ token.nbf > t THEN fail("NotBeforeError")
      ELSE IF t >= token.exp THEN fail("TokenExpiredError")
      ELSE [name |-> "ok", id |-> token.id, email |-> token.email, role |-> token.role]

(***************************************************************************)
(* Requests and responses.                                                 *)
(***************************************************************************)
NoUser == [set |-> FALSE, id |-> 0, email |-> << >>, role |-> ""]

Identity(id, email, role) == [set |-> TRUE, id |-> id, email |-> email, role |-> role]

NoRes ==
  [status |-> 0, error |-> "", message |-> "", detail |-> << >>,
   token |-> NoToken, user |-> NoUser, count |-> 0, rows |-> << >>, scan |-> << >>,
   query |-> << >>, filters |-> [region |-> "", scanType |-> ""],
   patientId |-> << >>, statistics |-> << >>, users |-> {}, credentials |-> {}]

Reply(status, error, message) ==
  [NoRes EXCEPT !.status = status, !.error = error, !.message = message]

\* what serving the request has done so far
NoFx ==
  [role |-> FALSE, parsed |-> FALSE, handler |-> FALSE, storage |-> 0,
   reads |-> 0, writes |-> 0, sent |-> 0]

NoHeader == [present |-> FALSE, scheme |-> "", token |-> NoToken]
Header(scheme, token) == [present |-> TRUE, scheme |-> scheme, token |-> token]

NoBody == [none |-> TRUE]

IdleReq ==
  [route |-> "", hdr |-> NoHeader, body |-> NoBody, pc |-> "idle", at |-> 0,
   user |-> NoUser, row |-> << >>, upload |-> "", res |-> NoRes, fx |-> NoFx]

\* a request that arrives at time t
NewReq(route, hdr, body, t) ==
  [IdleReq EXCEPT !.route = route, !.hdr = hdr, !.body = body, !.at = t]

\* res.status(...).json(...): a response is sent
Done(q, res, fx) ==
  [q EXCEPT !.pc = "done", !.res = res, !.fx = [fx EXCEPT !.sent = q.fx.sent + 1]]

(***************************************************************************)
(* Access-control middleware.                                              *)
(***************************************************************************)
\* authHeader && authHeader.split(' ')[1]: the second word of the header,
\* whatever the first word is; undefined and '' are both "no token"
authHeaderToken(hdr) == IF hdr.present THEN hdr.token ELSE NoToken

\* authenticateToken with TokenExpiredError answered like any other invalid token
authenticateTokenExpiredAsInvalid(hdr, t) ==
  LET token == authHeaderToken(hdr)
      v == jwtVerify(token, JWT_SECRET, t)
      halt(status, error, message) ==
        [next |-> FALSE, user |-> NoUser, res |-> Reply(status, error, message)]
  IN  IF token.form = "none"
        THEN halt(401, "Access denied", "No token provided")
      ELSE IF v.name = "ok"
        THEN [next |-> TRUE, user |-> Identity(v.id, v.email, v.role), res |-> NoRes]
      ELSE IF v.name \in {"TokenExpiredError", "JsonWebTokenError"}
        THEN halt(403, "Invalid token", "Token is malformed or invalid")
      ELSE halt(500, "Token verification failed", "Internal server error")

\* authenticateToken that verifies with ignoreExpiration: an expired token passes
authenticateTokenIgnoringExpiry(hdr, t) ==
  LET token == authHeaderToken(hdr)
      v == jwtVerify(token, JWT_SECRET, t)
      halt(status, error, message) ==
        [next |-> FALSE, user |-> NoUser, res |-> Reply(status, error, message)]
  IN  IF token.form = "none"
        THEN halt(401, "Access denied", "No token provided")
      ELSE IF v.name \in {"ok", "TokenExpiredError"}
        THEN [next |-> TRUE, user |-> Identity(token.id, token.email, token.role),
              res |-> NoRes]
      ELSE IF v.name = "JsonWebTokenError"
        THEN halt(403, "Invalid token", "Token is malformed or invalid")
      ELSE halt(500, "Token verification failed", "Internal server error")

\* middleware/auth.js
authenticateToken(hdr, t) ==
  LET token == authHeaderToken(hdr)
      v == jwtVerify(token, JWT_SECRET, t)
      halt(status, error, message) ==
        [next |-> FALSE, user |-> NoUser, res |-> Reply(status, error, message)]
  IN  IF token.form = "none"
        THEN halt(401, "Access denied", "No token provided")
      ELSE IF v.name = "ok"
        THEN [next |-> TRUE, user |-> Identity(v.id, v.email, v.role), res |-> NoRes]
      ELSE IF v.name = "TokenExpiredError"
        THEN halt(401, "Token expired", "Please log in again")
      ELSE IF v.name = "JsonWebTokenError"
        THEN halt(403, "Invalid token", "Token is malformed or invalid")
      ELSE halt(500, "Token verification failed", "Internal server error")

\* requireRole without the membership test
requireRoleAnyRole(allowedRoles, user) ==
  IF ~user.set
    THEN [next |-> FALSE,
          res |-> Reply(401, "Authentication required", "User not authenticated")]
  ELSE [next |-> TRUE, res |-> NoRes]

\* requireRole without the check for a missing identity: such a request passes
requireRoleNoIdentityCheck(allowedRoles, user) ==
  IF user.set /\ user.role \notin Range(allowedRoles)
    THEN [next |-> FALSE,
          res |-> [Reply(403, "Access forbidden", "Access denied")
                     EXCEPT !.detail = allowedRoles \o <<user.role>>]]
  ELSE [next |-> TRUE, res |-> NoRes]

\* middleware/roleAuth.js; allowedRoles is the list after line 13's normalisation
requireRole(allowedRoles, user) ==
  IF ~user.set
    THEN [next |-> FALSE,
          res |-> Reply(401, "Authentication required", "User not authenticated")]
  ELSE IF user.role \notin Range(allowedRoles)
    THEN [next |-> FALSE,
          res |-> [Reply(403, "Access forbidden", "Access denied")
                     EXCEPT !.detail = allowedRoles \o <<user.role>>]]
  ELSE [next |-> TRUE, res |-> NoRes]

requireTechnician(user) == requireRole(<<"Technician">>, user)
requireDentist(user) == requireRole(<<"Dentist">>, user)

UploadRoutes == {"upload", "history"}
ScanRoutes == {"scans", "stats", "search", "patient", "scan"}
ProtectedRoutes == UploadRoutes \cup ScanRoutes

\* the role middleware each route is mounted with
RouteRole(route, user) ==
  IF route \in UploadRoutes THEN requireTechnician(user) ELSE requireDentist(user)

AllowedRoles(route) == IF route \in UploadRoutes THEN {"Technician"} ELSE {"Dentist"}

\* authenticateToken, then the route's role middleware: the request as it
\* reaches the next middleware (pc "pass") or as it is answered (pc "done")
Gate(q, t) ==
  LET a == authenticateToken(q.hdr, t)
  IN  IF ~a.next THEN Done(q, a.res, q.fx)
      ELSE LET g == RouteRole(q.route, a.user)
               fx == [q.fx EXCEPT !.role = TRUE]
           IN  IF ~g.next THEN Done([q EXCEPT !.user = a.user], g.res, fx)
               ELSE [q EXCEPT !.user = a.user, !.fx = fx, !.pc = "pass"]

(***************************************************************************)
(* routes/auth.js: POST /login and POST /verify-token.                     *)
(***************************************************************************)
\* a JSON value of the login body: its JavaScript type and, for text, the text
Text(s) == [type |-> "string", val |-> s]
Undefined == [type |-> "undefined", val |-> ""]
Number7 == [type |-> "number", val |-> "7"]

\* !password
Falsy(v) == v.type = "undefined" \/ (v.type = "string" /\ v.val = "")

\* the email as given, not lowercased
loginEmailKeyAsGiven(email) == email

\* email.toLowerCase(): the key POST /login looks the user up by
loginEmailKey(email) == toLowerCase(email)

\* SELECT id, email, password, role FROM users WHERE email = ?
findUserQuery(usersTbl, email) == {u \in usersTbl : u.email = email}

\* POST /login up to `await bcrypt.compare`: the request answered, or
\* suspended (pc "bcrypt") with the user row it found
loginLookup(q, usersTbl) ==
  LET body == q.body
      found == findUserQuery(usersTbl, loginEmailKey(body.email))
      read == [q.fx EXCEPT !.handler = TRUE, !.reads = 1]
      entered == [q.fx EXCEPT !.handler = TRUE]
  IN  IF body.email = << >> \/ Falsy(body.password)
        THEN Done(q, Reply(400, "Missing credentials", "Email and password are required"),
                  entered)
      ELSE IF ~emailRegex(body.email)
        THEN Done(q, Reply(400, "Invalid email format",
                           "Please provide a valid email address"), entered)
      ELSE IF found = {}
        THEN Done(q, Reply(401, "Invalid credentials", "Email or password is incorrect"),
                  read)
      ELSE [q EXCEPT !.pc = "bcrypt", !.fx = read, !.row = <<CHOOSE u \in found : TRUE>>]

\* POST /login from the result of bcrypt.compare on, at time t
loginFinish(q, t) ==
  LET user == q.row[1]
      outcome == bcryptCompare(q.body.password, user.password)
      tokenPayload == [id |-> user.id, email |-> user.email, role |-> user.role]
      token == jwtSign(tokenPayload, JWT_SECRET, t)
  IN  IF outcome = "throw"
        THEN Done(q, Reply(500, "Internal server error", "An error occurred during login"),
                  q.fx)
      ELSE IF outcome = "mismatch"
        THEN Done(q, Reply(401, "Invalid credentials", "Email or password is incorrect"),
                  q.fx)
      ELSE Done(q, [Reply(200, "", "Login successful")
                      EXCEPT !.token = token,
                             !.user = Identity(user.id, user.email, user.role)],
                q.fx)

\* POST /verify-token
verifyTokenRoute(q, t) ==
  LET token == authHeaderToken(q.hdr)
      v == jwtVerify(token, JWT_SECRET, t)
      fx == [q.fx EXCEPT !.handler = TRUE]
  IN  IF token.form = "none"
        THEN Done(q, Reply(401, "No token provided", "Authorization token is required"), fx)
      ELSE IF v.name = "ok"
        THEN Done(q, [Reply(200, "", "Token is valid")
                        EXCEPT !.user = Identity(v.id, v.email, v.role)], fx)
      ELSE IF v.name = "TokenExpiredError"
        THEN Done(q, Reply(401, "Token expired", "Please log in again"), fx)
      ELSE IF v.name = "JsonWebTokenError"
        THEN Done(q, Reply(403, "Invalid token", "Token is malformed or invalid"), fx)
      ELSE Done(q, Reply(500, "Token verification failed", "Internal server error"), fx)

(***************************************************************************)
(* routes/upload.js: the multipart parser and the upload handler.          *)
(***************************************************************************)
\* 10 * 1024 * 1024
maxFileSize == 10485760

NoFile == [present |-> FALSE, fieldname |-> "", mimetype |-> <<"", "">>, size |-> 0]

\* a file part; its mimetype "type/subtype" is the pair <<type, subtype>>
File(fieldname, mimetype, size) ==
  [present |-> TRUE, fieldname |-> fieldname, mimetype |-> mimetype, size |-> size]

allowedTypes == {<<"image", "jpeg">>, <<"image", "jpg">>, <<"image", "png">>}

\* fileFilter: "" accepts the file, any other value is the Error's message
fileFilter(file) ==
  IF file.mimetype[1] = "image"
    THEN IF file.mimetype \in allowedTypes THEN ""
         ELSE "Only JPG, JPEG, and PNG files are allowed"
  ELSE "Only image files are allowed"

NoError == [kind |-> "none", code |-> "", message |-> ""]

\* upload.single('scanImage') with the configured limits: the error it passes
\* to next(), if any.  multer checks the field name, then the filter, then
\* counts the bytes as it buffers them.
multerSingle(file) ==
  IF ~file.present THEN NoError
  ELSE IF file.fieldname # "scanImage"
    THEN [kind |-> "MulterError", code |-> "LIMIT_UNEXPECTED_FILE",
          message |-> "Unexpected field"]
  ELSE IF fileFilter(file) # ""
    THEN [kind |-> "Error", code |-> "", message |-> fileFilter(file)]
  ELSE IF file.size > maxFileSize
    THEN [kind |-> "MulterError", code |-> "LIMIT_FILE_SIZE", message |-> "File too large"]
  ELSE NoError

\* error.message.includes('Only'), for the messages multerSingle produces
includesOnly(message) ==
  message \in {"Only JPG, JPEG, and PNG files are allowed", "Only image files are allowed"}

\* router.use((error, req, res, next) => ...): the multer error handler
multerErrorHandler(error) ==
  IF error.kind = "MulterError"
    THEN IF error.code = "LIMIT_FILE_SIZE"
           THEN Reply(400, "File too large", "Image file must be smaller than 10MB")
         ELSE IF error.code = "LIMIT_FILE_COUNT"
           THEN Reply(400, "Too many files", "Only one image file is allowed")
         ELSE Reply(400, "File upload error", error.message)
  ELSE IF includesOnly(error.message)
    THEN Reply(400, "Invalid file type", error.message)
  \* next(error): the application's global error handler
  ELSE Reply(500, "Internal server error", "An unexpected error occurred")

validScanTypes == <<"RGB">>
validRegions == <<"Frontal", "Upper Arch", "Lower Arch">>

patientIdMin == 3
patientIdMax == 20
patientNameMin == 2
patientNameMax == 50

\* /^[a-zA-Z0-9]{3,20}$/
patientIdRegex(s) ==
  /\ Len(s) >= patientIdMin /\ Len(s) <= patientIdMax
  /\ \A i \in 1..Len(s) : IsLetter(s[i]) \/ IsDigit(s[i])

\* /^[a-zA-Z\s\-]{2,50}$/
patientNameRegex(s) ==
  /\ Len(s) >= patientNameMin /\ Len(s) <= patientNameMax
  /\ \A i \in 1..Len(s) : IsLetter(s[i]) \/ IsSpace(s[i]) \/ s[i] = "-"

\* uploadValidate without the patient ID format check
uploadValidateNoIdFormat(body, file) ==
  IF \/ body.patientName = << >> \/ body.patientId = << >>
     \/ body.scanType = "" \/ body.region = "" \/ ~file.present
    THEN Reply(400, "Missing required fields",
               "Patient name, patient ID, scan type, region, and scan image are all required")
  ELSE IF body.scanType \notin Range(validScanTypes)
    THEN Reply(400, "Invalid scan type", "Scan type must be one of: RGB")
  ELSE IF body.region \notin Range(validRegions)
    THEN Reply(400, "Invalid region",
               "Region must be one of: Frontal, Upper Arch, Lower Arch")
  ELSE IF ~patientNameRegex(trim(body.patientName))
    THEN Reply(400, "Invalid patient name format",
               "Patient name must be 2-50 characters (letters, spaces, hyphens only)")
  ELSE NoRes

\* the validation of POST /: the 400 reply, or NoRes when every check passes.
\* file is req.file: the file part multer accepted, or NoFile
uploadValidate(body, file) ==
  IF \/ body.patientName = << >> \/ body.patientId = << >>
     \/ body.scanType = "" \/ body.region = "" \/ ~file.present
    THEN Reply(400, "Missing required fields",
               "Patient name, patient ID, scan type, region, and scan image are all required")
  ELSE IF body.scanType \notin Range(validScanTypes)
    THEN Reply(400, "Invalid scan type", "Scan type must be one of: RGB")
  ELSE IF body.region \notin Range(validRegions)
    THEN Reply(400, "Invalid region",
               "Region must be one of: Frontal, Upper Arch, Lower Arch")
  ELSE IF ~patientIdRegex(body.patientId)
    THEN Reply(400, "Invalid patient ID format",
               "Patient ID must be 3-20 alphanumeric characters")
  ELSE IF ~patientNameRegex(trim(body.patientName))
    THEN Reply(400, "Invalid patient name format",
               "Patient name must be 2-50 characters (letters, spaces, hyphens only)")
  ELSE NoRes

\* POST / from multer to `await uploadImage`: answered with 400, or suspended
\* (pc "storage") with the storage call made
uploadParse(q) ==
  LET error == multerSingle(q.body.file)
      parsed == [q.fx EXCEPT !.parsed = TRUE]
      entered == [parsed EXCEPT !.handler = TRUE]
      invalid == uploadValidate(q.body, q.body.file)
  IN  IF error.kind # "none" THEN Done(q, multerErrorHandler(error), parsed)
      ELSE IF invalid.status # 0 THEN Done(q, invalid, entered)
      ELSE [q EXCEPT !.pc = "storage", !.fx = [entered EXCEPT !.storage = 1]]

\* error.message.includes(phrase): an error message is the set of the phrases
\* it includes
StorageErrors == {{"Cloudinary"}, {"Request Timeout"}}
NoFailure == {"no error"}

\* the catch block of POST /
uploadCatch(message) ==
  IF "Cloudinary" \in message
    THEN Reply(500, "Image upload failed", "Failed to upload image to cloud storage")
  ELSE IF "UNIQUE constraint failed" \in message
    THEN Reply(409, "Duplicate scan",
               "A scan with this patient ID and details already exists")
  ELSE Reply(500, "Upload failed", "An error occurred while processing the upload")

SqlNull == 0

\* the scans table with UNIQUE (patientId, scanType, region)
insertScanErrorUniqueScan(usersTbl, row, fault) ==
  IF fault THEN {"disk I/O error"}
  ELSE IF row.region \notin Range(validRegions) THEN {"CHECK constraint failed"}
  ELSE IF row.uploadedBy # SqlNull /\ row.uploadedBy \notin {u.id : u \in usersTbl}
    THEN {"FOREIGN KEY constraint failed"}
  ELSE IF \E i \in 1..Len(scans) : /\ scans[i].patientId = row.patientId
                                    /\ scans[i].scanType = row.scanType
                                    /\ scans[i].region = row.region
    THEN {"UNIQUE constraint failed"}
  ELSE NoFailure

\* INSERT INTO scans (...) VALUES (...) under the table's constraints: the
\* error message, or NoFailure.  fault is a failure of the database itself
\* (disk, lock), which no input decides.
insertScanError(usersTbl, row, fault) ==
  IF fault THEN {"disk I/O error"}
  ELSE IF row.region \notin Range(validRegions) THEN {"CHECK constraint failed"}
  ELSE IF row.uploadedBy # SqlNull /\ row.uploadedBy \notin {u.id : u \in usersTbl}
    THEN {"FOREIGN KEY constraint failed"}
  ELSE NoFailure

\* the row with the patientId as it was sent
scanRowIdAsGiven(q, id, imageUrl, t) ==
  [id |-> id,
   patientName |-> trim(q.body.patientName),
   patientId |-> q.body.patientId,
   scanType |-> q.body.scanType,
   region |-> q.body.region,
   imageUrl |-> imageUrl,
   uploadDate |-> t,
   uploadedBy |-> q.user.id]

\* the row with the uploader read from a variable that all connections share
\* (here the identity of connection 1)
scanRowSharedUser(q, id, imageUrl, t) ==
  [id |-> id,
   patientName |-> trim(q.body.patientName),
   patientId |-> toUpperCase(q.body.patientId),
   scanType |-> q.body.scanType,
   region |-> q.body.region,
   imageUrl |-> imageUrl,
   uploadDate |-> t,
   uploadedBy |-> req[1].user.id]

\* the row POST / inserts: id from AUTOINCREMENT, uploadDate from
\* CURRENT_TIMESTAMP, the rest from insertScanQuery.run(...)
scanRow(q, id, imageUrl, t) ==
  [id |-> id,
   patientName |-> trim(q.body.patientName),
   patientId |-> toUpperCase(q.body.patientId),
   scanType |-> q.body.scanType,
   region |-> q.body.region,
   imageUrl |-> imageUrl,
   uploadDate |-> t,
   uploadedBy |-> q.user.id]

\* new Date().toISOString(): the clock reading as an ISO 8601 text with "T" and
\* "Z", which is not the "YYYY-MM-DD HH:MM:SS" text CURRENT_TIMESTAMP stores
toISOString(t) == [iso |-> t]

\* the scan of the 201 response
scanReply(q, id, imageUrl, t) ==
  [id |-> id,
   patientName |-> trim(q.body.patientName),
   patientId |-> toUpperCase(q.body.patientId),
   scanType |-> q.body.scanType,
   region |-> q.body.region,
   imageUrl |-> imageUrl,
   uploadDate |-> toISOString(t),
   uploadedBy |-> q.user.email]

(***************************************************************************)
(* Scan repository queries (routes/upload.js GET /history, routes/scans.js)*)
(***************************************************************************)
HistoryLimit == 50

\* the rows in the order of their ids
OrderByIdAsc(rows) ==
  LET n == Cardinality(rows)
  IN  {f \in [1..n -> rows] :
         /\ \A i, j \in 1..n : i # j => f[i] # f[j]
         /\ \A i, j \in 1..n : i < j => f[i].id <= f[j].id}

\* ORDER BY uploadDate DESC over a set of result rows: every listing of the
\* rows, each once, with uploadDate never increasing.  SQL leaves the order
\* of rows with equal uploadDate open.
OrderByUploadDateDesc(rows) ==
  LET n == Cardinality(rows)
  IN  {f \in [1..n -> rows] :
         /\ \A i, j \in 1..n : i # j => f[i] # f[j]
         /\ \A i, j \in 1..n : i < j => f[i].uploadDate >= f[j].uploadDate}

\* LIMIT n
Limit(s, n) == IF Len(s) <= n THEN s ELSE SubSeq(s, 1, n)

\* historyQuery without its WHERE clause
historyQueryAllUploaders(scansTbl, uid) ==
  LET cols(s) == [id |-> s.id, patientName |-> s.patientName, patientId |-> s.patientId,
                  scanType |-> s.scanType, region |-> s.region, imageUrl |-> s.imageUrl,
                  uploadDate |-> s.uploadDate]
  IN  {Limit(f, HistoryLimit) :
         f \in OrderByUploadDateDesc({cols(scansTbl[i]) : i \in 1..Len(scansTbl)})}

\* SELECT id, patientName, patientId, scanType, region, imageUrl, uploadDate
\* FROM scans WHERE uploadedBy = ? ORDER BY uploadDate DESC LIMIT 50
historyQuery(scansTbl, uid) ==
  LET hit == {i \in 1..Len(scansTbl) : scansTbl[i].uploadedBy = uid}
      cols(s) == [id |-> s.id, patientName |-> s.patientName, patientId |-> s.patientId,
                  scanType |-> s.scanType, region |-> s.region, imageUrl |-> s.imageUrl,
                  uploadDate |-> s.uploadDate]
  IN  {Limit(f, HistoryLimit) : f \in OrderByUploadDateDesc({cols(scansTbl[i]) : i \in hit})}

\* the join as an inner JOIN: scans without a user are dropped
innerJoinUsers(scansTbl, usersTbl) ==
  LET out(s, email, role) ==
        [id |-> s.id, patientName |-> s.patientName, patientId |-> s.patientId,
         scanType |-> s.scanType, region |-> s.region, imageUrl |-> s.imageUrl,
         uploadDate |-> s.uploadDate, uploader |-> [email |-> email, role |-> role]]
      joined(s) == {out(s, u.email, u.role) : u \in {x \in usersTbl : x.id = s.uploadedBy}}
  IN  UNION {joined(scansTbl[i]) : i \in 1..Len(scansTbl)}

\* FROM scans s LEFT JOIN users u ON s.uploadedBy = u.id, with the columns
\* the scans routes select and the shape formattedScans gives them
leftJoinUsers(scansTbl, usersTbl) ==
  LET out(s, email, role) ==
        [id |-> s.id, patientName |-> s.patientName, patientId |-> s.patientId,
         scanType |-> s.scanType, region |-> s.region, imageUrl |-> s.imageUrl,
         uploadDate |-> s.uploadDate, uploader |-> [email |-> email, role |-> role]]
      joined(s) ==
        LET m == {u \in usersTbl : u.id = s.uploadedBy}
        IN  IF m = {} THEN {out(s, << >>, "")} ELSE {out(s, u.email, u.role) : u \in m}
  IN  UNION {joined(scansTbl[i]) : i \in 1..Len(scansTbl)}

\* getAllScansQuery
getAllScansQuery(scansTbl, usersTbl) ==
  OrderByUploadDateDesc(leftJoinUsers(scansTbl, usersTbl))

\* the answers a request that passed the gate can get from its handler
listReply(q, message, rows) ==
  Done(q, [Reply(200, "", message) EXCEPT !.count = Len(rows), !.rows = rows],
       [q.fx EXCEPT !.handler = TRUE, !.reads = 1])

\* GET /history
historyRoute(q, scansTbl) ==
  {listReply(q, "Upload history retrieved successfully", rows) :
     rows \in historyQuery(scansTbl, q.user.id)}

\* GET / of routes/scans.js
scansRoute(q, scansTbl, usersTbl) ==
  {listReply(q, "Scans retrieved successfully", rows) :
     rows \in getAllScansQuery(scansTbl, usersTbl)}

\* COUNT(*) ... GROUP BY column ORDER BY count DESC, over the column's values
\* row by row: every listing of the groups with count never increasing
groupCountDesc(column) ==
  LET groups == {[key |-> k, count |-> Cardinality({i \in DOMAIN column : column[i] = k})] :
                   k \in Range(column)}
      n == Cardinality(groups)
  IN  {f \in [1..n -> groups] :
         /\ \A i, j \in 1..n : i # j => f[i] # f[j]
         /\ \A i, j \in 1..n : i < j => f[i].count >= f[j].count}

scansByRegionQuery(scansTbl) ==
  groupCountDesc([i \in 1..Len(scansTbl) |-> scansTbl[i].region])

scansByScanTypeQuery(scansTbl) ==
  groupCountDesc([i \in 1..Len(scansTbl) |-> scansTbl[i].scanType])

\* datetime('now', '-7 days'), in hours
recentDays == 7
recentUploadsQuery(scansTbl, t) ==
  Cardinality({i \in 1..Len(scansTbl) : scansTbl[i].uploadDate >= t - recentDays * 24})

uniquePatientsQuery(scansTbl) == Cardinality({scansTbl[i].patientId : i \in 1..Len(scansTbl)})

topUploadersLimit == 5

\* the top uploaders query without its LIMIT
topUploadersQueryNoLimit(scansTbl, usersTbl) ==
  LET count(u) == Cardinality({i \in 1..Len(scansTbl) : scansTbl[i].uploadedBy = u.id})
      groups == {[email |-> u.email, uploadCount |-> count(u)] :
                   u \in {x \in usersTbl : count(x) > 0}}
      n == Cardinality(groups)
  IN  {g \in [1..n -> groups] :
         /\ \A i, j \in 1..n : i # j => g[i] # g[j]
         /\ \A i, j \in 1..n : i < j => g[i].uploadCount >= g[j].uploadCount}

\* SELECT u.email, COUNT(s.id) FROM scans s JOIN users u ON s.uploadedBy = u.id
\* GROUP BY u.id, u.email ORDER BY uploadCount DESC LIMIT 5
topUploadersQuery(scansTbl, usersTbl) ==
  LET count(u) == Cardinality({i \in 1..Len(scansTbl) : scansTbl[i].uploadedBy = u.id})
      groups == {[email |-> u.email, uploadCount |-> count(u)] :
                   u \in {x \in usersTbl : count(x) > 0}}
      n == Cardinality(groups)
  IN  {Limit(f, topUploadersLimit) :
         f \in {g \in [1..n -> groups] :
                  /\ \A i, j \in 1..n : i # j => g[i] # g[j]
                  /\ \A i, j \in 1..n : i < j => g[i].uploadCount >= g[j].uploadCount}}

\* GET /stats
statsRoute(q, scansTbl, usersTbl, t) ==
  {Done(q, [Reply(200, "", "Scan statistics retrieved successfully")
              EXCEPT !.statistics =
                [totalScans |-> Len(scansTbl),
                 uniquePatients |-> uniquePatientsQuery(scansTbl),
                 recentUploads |-> recentUploadsQuery(scansTbl, t),
                 scansByRegion |-> byRegion,
                 scansByScanType |-> byType,
                 topUploaders |-> top]],
        [q.fx EXCEPT !.handler = TRUE, !.reads = 6]) :
     byRegion \in scansByRegionQuery(scansTbl),
     byType \in scansByScanTypeQuery(scansTbl),
     top \in topUploadersQuery(scansTbl, usersTbl)}

\* a parameter of the query string: absent, or its text
NoParam == [given |-> FALSE, val |-> << >>]
Param(s) == [given |-> TRUE, val |-> s]

DigitChars == <<"0","1","2","3","4","5","6","7","8","9">>

NaN == [nan |-> TRUE, n |-> 0]
Num(n) == [nan |-> FALSE, n |-> n]

RECURSIVE leadingDigits(_, _)
leadingDigits(s, acc) ==
  IF s = << >> \/ ~IsDigit(Head(s)) THEN acc
  ELSE leadingDigits(Tail(s), 10 * acc + IndexIn(DigitChars, Head(s)) - 1)

\* parseInt(text) for decimal text: leading white space, a sign, the digits
\* up to the first other character; NaN when no digit is there
parseInt(s) ==
  LET keep == {i \in 1..Len(s) : ~IsSpace(s[i])}
      t == IF keep = {} THEN << >>
           ELSE SubSeq(s, CHOOSE i \in keep : \A j \in keep : i <= j, Len(s))
      signed == t # << >> /\ Head(t) \in {"-", "+"}
      body == IF signed THEN Tail(t) ELSE t
  IN  IF body = << >> \/ ~IsDigit(Head(body)) THEN NaN
      ELSE IF signed /\ Head(t) = "-" THEN Num(0 - leadingDigits(body, 0))
      ELSE Num(leadingDigits(body, 0))

\* the LIKE operator of SQLite: % matches any text, _ any one character,
\* and letters match in either case
RECURSIVE like(_, _)
like(text, pattern) ==
  IF pattern = << >> THEN text = << >>
  ELSE IF Head(pattern) = "%"
    THEN like(text, Tail(pattern)) \/ (text # << >> /\ like(Tail(text), pattern))
  ELSE /\ text # << >>
       /\ \/ Head(pattern) = "_"
          \/ toLowerCaseChar(Head(pattern)) = toLowerCaseChar(Head(text))
       /\ like(Tail(text), Tail(pattern))

searchDefaultLimit == 50

\* LIMIT n: a negative n is no limit
SqlLimit(s, n) == IF n < 0 THEN s ELSE Limit(s, n)

\* the statement GET /search builds, run with its parameters
searchQuery(scansTbl, usersTbl, params) ==
  LET hit == {x \in leftJoinUsers(scansTbl, usersTbl) :
                /\ like(x.patientName, params.name) \/ like(x.patientId, params.id)
                /\ params.region # "" => x.region = params.region
                /\ params.scanType # "" => x.scanType = params.scanType}
  IN  {SqlLimit(f, params.limit) : f \in OrderByUploadDateDesc(hit)}

\* the test that refuses only an absent query
searchQueryTooShortAbsentOnly(query) == query = << >>

\* !query || query.trim().length < 2
searchQueryTooShort(query) == query = << >> \/ Len(trim(query)) < 2

\* GET /search
searchRoute(q, scansTbl, usersTbl) ==
  LET query == q.body.query
      limit == IF q.body.limit.given THEN parseInt(q.body.limit.val)
               ELSE Num(searchDefaultLimit)
      params == [name |-> <<"%">> \o trim(query) \o <<"%">>,
                 id |-> <<"%">> \o toUpperCase(trim(query)) \o <<"%">>,
                 region |-> q.body.region, scanType |-> q.body.scanType,
                 limit |-> limit.n]
      fx == [q.fx EXCEPT !.handler = TRUE]
  IN  IF searchQueryTooShort(query)
        THEN {Done(q, Reply(400, "Invalid search query",
                            "Search query must be at least 2 characters long"), fx)}
      ELSE IF limit.nan
        THEN {Done(q, Reply(500, "Search failed", "An error occurred while searching scans"),
                   [fx EXCEPT !.reads = 1])}
      ELSE {Done(q, [Reply(200, "", "Search completed successfully")
                       EXCEPT !.query = trim(query),
                              !.filters = [region |-> q.body.region,
                                           scanType |-> q.body.scanType],
                              !.count = Len(rows), !.rows = rows],
                 [fx EXCEPT !.reads = 1]) :
              rows \in searchQuery(scansTbl, usersTbl, params)}

patientIdParamMin == 3

\* getPatientScansQuery.all(patientId): ... WHERE s.patientId = ? ORDER BY
\* s.uploadDate DESC
getPatientScansQuery(scansTbl, usersTbl, patientId) ==
  OrderByUploadDateDesc({x \in leftJoinUsers(scansTbl, usersTbl) : x.patientId = patientId})

\* GET /patient/:patientId
patientRoute(q, scansTbl, usersTbl) ==
  LET patientId == toUpperCase(q.body.patientId)
      fx == [q.fx EXCEPT !.handler = TRUE]
  IN  IF patientId = << >> \/ Len(patientId) < patientIdParamMin
        THEN {Done(q, Reply(400, "Invalid patient ID",
                            "Patient ID must be at least 3 characters long"), fx)}
      ELSE {Done(q, [Reply(200, "", "Scans retrieved successfully for patient")
                       EXCEPT !.patientId = patientId, !.count = Len(rows), !.rows = rows],
                 [fx EXCEPT !.reads = 1]) :
              rows \in getPatientScansQuery(scansTbl, usersTbl, patientId)}

\* GET /:id
scanByIdRoute(q, scansTbl, usersTbl) ==
  LET scanId == parseInt(q.body.id)
      fx == [q.fx EXCEPT !.handler = TRUE]
      hit == {x \in leftJoinUsers(scansTbl, usersTbl) : x.id = scanId.n}
  IN  IF scanId.nan
        THEN {Done(q, Reply(400, "Invalid scan ID", "Scan ID must be a valid number"), fx)}
      ELSE IF hit = {}
        THEN {Done(q, [Reply(404, "Scan not found", "No scan found with ID")
                         EXCEPT !.detail = <<scanId.n>>],
                   [fx EXCEPT !.reads = 1])}
      ELSE {Done(q, [Reply(200, "", "Scan retrieved successfully") EXCEPT !.scan = x],
                 [fx EXCEPT !.reads = 1]) : x \in hit}

(***************************************************************************)
(* The requests clients send.                                              *)
(***************************************************************************)
UserPayload(u) == [id |-> u.id, email |-> u.email, role |-> u.role]

IssueTimes(t) == {i \in 0..t : i % TickStep = 0}

\* the tokens POST /login can have issued by time t
LoginTokens(t) == {jwtSign(UserPayload(u), JWT_SECRET, i) : u \in users, i \in IssueTimes(t)}

\* tokens signed without the server's secret: a dentist's payload, and the
\* technician's payload with the role changed
ForgedTokens ==
  {jwtSign([id |-> 2, email |-> dentistEmail, role |-> "Dentist"], "attacker", 0),
   jwtSign([id |-> 1, email |-> technicianEmail, role |-> "Dentist"], "attacker", 0)}

GarbageToken == [NoToken EXCEPT !.form = "garbage"]

\* a token signed with the server's secret by another holder of the secret,
\* with a not-before time that lies beyond its own expiry
NotYetValidToken ==
  [jwtSign([id |-> 1, email |-> technicianEmail, role |-> "Technician"], JWT_SECRET, 0)
     EXCEPT !.nbf = 2 * TokenTTL]

Tokens(t) == LoginTokens(t) \cup ForgedTokens \cup {GarbageToken, NotYetValidToken}

Headers(t) ==
  {NoHeader, Header("Bearer", NoToken)}
    \cup {Header("Bearer", k) : k \in Tokens(t)}
    \cup {Header("Basic", k) : k \in {x \in LoginTokens(t) : x.iat = t}}

mixedCaseTechnicianEmail ==
  <<"T","e","c","h","n","i","c","i","a","n","@","O","r","a","l","V","i","s",".","C","O","M">>
unknownEmail == <<"n","o","b","o","d","y","@","o","r","a","l","v","i","s",".","c","o","m">>
noDotEmail == <<"d","e","n","t","i","s","t","@","o","r","a","l","v","i","s">>
spacedEmail ==
  <<"d","e","n","t","i","s","t"," ","@","o","r","a","l","v","i","s",".","c","o","m">>

LoginEmails ==
  {<< >>, technicianEmail, mixedCaseTechnicianEmail, toUpperCase(dentistEmail),
   secondTechnicianEmail, unknownEmail, noDotEmail, spacedEmail}

LoginPasswords ==
  {Undefined, Text(""), Text("technician123"), Text("dentist123"), Text("wrong"), Number7}

LoginBodies == [email : LoginEmails, password : LoginPasswords]

janeDoe == <<" ","J","a","n","e"," ","D","o","e"," ">>
alLi == <<"A","l","-","L","i">>
p001 == <<"p","0","0","1">>
abc123 == <<"a","b","c","1","2","3">>

jpeg == File("scanImage", <<"image", "jpeg">>, 2048)
pngAtLimit == File("scanImage", <<"image", "png">>, maxFileSize)

UploadBody(patientName, patientId, scanType, region, file) ==
  [patientName |-> patientName, patientId |-> patientId, scanType |-> scanType,
   region |-> region, file |-> file]

janeDoeBody == UploadBody(janeDoe, p001, "RGB", "Frontal", jpeg)

ValidBodies ==
  {janeDoeBody,
   UploadBody(alLi, abc123, "RGB", "Upper Arch", pngAtLimit)}

\* a valid body with one part changed
InvalidBodies ==
  LET b == janeDoeBody
  IN  {[b EXCEPT !.patientName = n] :
         n \in {<< >>, <<"J">>, <<" ", " ", " ">>, <<"J", "o", "3">>}}
      \cup {[b EXCEPT !.patientId = i] :
         i \in {<< >>, <<"p", "1">>, <<"p", "-", "0", "1">>,
                abc123 \o abc123 \o abc123 \o abc123}}
      \cup {[b EXCEPT !.scanType = s] : s \in {"", "CT", "rgb"}}
      \cup {[b EXCEPT !.region = g] : g \in {"", "Molar", "frontal"}}
      \cup {[b EXCEPT !.file = f] :
         f \in {NoFile,
                File("scanImage", <<"image", "gif">>, 2048),
                File("scanImage", <<"application", "pdf">>, 2048),
                File("scanImage", <<"image", "jpeg">>, maxFileSize + 1),
                File("photo", <<"image", "jpeg">>, 2048)}}

\* a name with a tab between its letters: white space to patientNameRegex
joTabAnn == <<"J","o","\t","A","n","n">>

AcceptedBodies == ValidBodies \cup {UploadBody(joTabAnn, abc123, "RGB", "Lower Arch", jpeg)}

UploadBodies == AcceptedBodies \cup InvalidBodies

Search(query, region, scanType, limit) ==
  [query |-> query, region |-> region, scanType |-> scanType, limit |-> limit]

SearchRequests ==
  {Search(<<"j", "a">>, "", "", NoParam),
   Search(<<"0", "0">>, "Frontal", "RGB", Param(<<"1">>)),
   Search(<<"x">>, "", "", NoParam)}

\* searches of every kind: by id and by name in either case, with filters,
\* with limits, with wildcard characters, and with queries too short
SearchProbes ==
  {Search(<<"a", "b">>, "", "", NoParam),
   Search(<<"B", "c", "1">>, "", "", NoParam),
   Search(<<"p", "0">>, "", "", NoParam),
   Search(<<"j", "A">>, "", "", NoParam),
   Search(<<"0", "0">>, "", "", NoParam),
   Search(<<"0", "0">>, "Frontal", "RGB", NoParam),
   Search(<<"0", "0">>, "Upper Arch", "", NoParam),
   Search(<<"0", "0">>, "", "", Param(<<"1">>)),
   Search(<<"0", "0">>, "", "", Param(<<"0">>)),
   Search(<<"0", "0">>, "", "", Param(<<"-", "1">>)),
   Search(<<"0", "0">>, "", "", Param(<<"a", "b", "c">>)),
   Search(<<"_", "0">>, "", "", NoParam),
   Search(<<"x">>, "", "", NoParam),
   Search(<<" ", "a", " ">>, "", "", NoParam),
   Search(<< >>, "", "", NoParam)}

PatientIdProbes ==
  {p001, abc123, <<"X", "0", "0", "9">>, <<"x", "0", "0", "9">>, <<"p", "0", "0">>,
   <<"p", "1">>, <<"z">>, <<eszett, "1">>}

PatientIdParams == {p001, <<"x", "0", "0", "9">>, <<"p", "1">>}

ScanIdParams == {<<"1">>, <<"2">>, <<"a", "b", "c">>}

(***************************************************************************)
(* The server process (server.js) and its console.  A console line is the  *)
(* sequence of its words.                                                  *)
(***************************************************************************)
\* bounds the runs of init.js
MaxInits == 2

\* the lines init.js prints when it seeds the users table
seedLog ==
  {<<"Default", "Technician", "created:", "technician@oralvis.com", "/", "technician123">>,
   <<"Default", "Dentist", "created:", "dentist@oralvis.com", "/", "dentist123">>}

\* the line init.js prints when the users table holds rows
skipLog == {<<"Default", "users", "already", "exist,", "skipping", "creation">>}

\* the lines of the app.listen callback that name accounts
listenLog ==
  {<<"Technician:", "technician@oralvis.com", "/", "technician123">>,
   <<"Dentist:", "dentist@oralvis.com", "/", "dentist123">>}

\* the server before init.js and server.js have run, with an empty console;
\* inits counts the runs of init.js
Down == [phase |-> "down", console |-> {}, inits |-> 0]

\* the server after init.js ran and app.listen called back
Listening == [phase |-> "listening", console |-> listenLog, inits |-> 1]

\* INSERT INTO users of init.js: the ids of AUTOINCREMENT, the bcrypt hashes
insertUser(usersTbl, email, password, role) ==
  usersTbl \cup {[id |-> Cardinality(usersTbl) + 1, email |-> email,
                  password |-> bcryptHash(password), role |-> role]}

\* init.js seeding whatever the users table holds
seedUsersAlways(usersTbl) ==
  insertUser(insertUser(usersTbl, technicianEmail, "technician123", "Technician"),
             dentistEmail, "dentist123", "Dentist")

\* init.js lines 50-76: the users table after the run
seedUsers(usersTbl) ==
  IF Cardinality(usersTbl) = 0
    THEN insertUser(insertUser(usersTbl, technicianEmail, "technician123", "Technician"),
                    dentistEmail, "dentist123", "Dentist")
    ELSE usersTbl

\* GET /api/auth/test-users
testUsersRoute(q, usersTbl) ==
  Done(q, [Reply(200, "", "Available test users")
             EXCEPT !.users = {[id |-> u.id, email |-> u.email, role |-> u.role] :
                                 u \in usersTbl},
                    !.credentials =
                      {[email |-> technicianEmail, password |-> "technician123",
                        role |-> "Technician"],
                       [email |-> dentistEmail, password |-> "dentist123",
                        role |-> "Dentist"]}],
       [q.fx EXCEPT !.handler = TRUE, !.reads = 1])

(***************************************************************************)
(* The browser (frontend/src/utils/auth.js): the localStorage entries      *)
(* oralvis_token and oralvis_user.                                         *)
(***************************************************************************)
\* removed and removedAt are history: the token the last logout removed from
\* the storage, and the hour of that logout
NoBrowser ==
  [token |-> NoToken, user |-> NoUser, removed |-> NoToken, removedAt |-> 0,
   path |-> "", pc |-> "idle", page |-> "blank",
   isValidating |-> TRUE, tokenValid |-> FALSE, verified |-> FALSE, hdr |-> NoHeader]

\* saveAuthData(token, user)
saveAuthData(b, token, user) == [b EXCEPT !.token = token, !.user = user]

\* logout(): both entries are removed from localStorage
logout(b, t) ==
  [b EXCEPT !.token = NoToken, !.user = NoUser,
            !.removed = IF b.token = NoToken THEN b.removed ELSE b.token,
            !.removedAt = IF b.token = NoToken THEN b.removedAt ELSE t]

(***************************************************************************)
(* The initial state: the server starts on the database init.js left.      *)
(***************************************************************************)
MaxAssets == 3

\* a scan row whose uploader was removed from the users table
legacyRow ==
  [id |-> 1, patientName |-> <<"O","l","d">>, patientId |-> <<"X","0","0","9">>,
   scanType |-> "RGB", region |-> "Lower Arch", imageUrl |-> 1, uploadDate |-> 0,
   uploadedBy |-> SqlNull]

Init ==
  /\ users \in UsersTables
  /\ scans \in {<< >>, <<legacyRow>>}
  /\ seq = Len(scans)
  /\ assets = Len(scans)
  /\ now = 0
  /\ req = [r \in Reqs |-> IdleReq]
  /\ server = Listening
  /\ browser = NoBrowser

(***************************************************************************)
(* Actions.  r is the connection; H and B are the headers and bodies the   *)
(* clients of a specification send.                                        *)
(***************************************************************************)
Free(r) == req[r].pc \in {"idle", "done"}

\* the router takes the browser to a path: the element of the route is
\* mounted anew, a ProtectedRoute with its initial state
goto(b, path) ==
  [b EXCEPT !.path = path, !.pc = "route", !.page = "blank",
            !.isValidating = TRUE, !.tokenValid = FALSE, !.verified = FALSE,
            !.hdr = NoHeader]

\* redirectByRole of the login page
redirectByRole(b, role) ==
  IF role = "Technician" THEN goto(b, "/technician")
  ELSE IF role = "Dentist" THEN goto(b, "/dentist")
  ELSE b

Answer(r, q) == req' = [req EXCEPT ![r] = q]

\* the clock advances, up to the hour limit
Tick(limit) ==
  /\ now + TickStep <= limit
  /\ now' = now + TickStep
  /\ UNCHANGED <<users, scans, seq, assets, req, server, browser>>

\* POST /api/auth/login arrives
LoginRequest(r, B) ==
  /\ Free(r)
  /\ \E body \in B : Answer(r, loginLookup(NewReq("login", NoHeader, body, now), users))
  /\ UNCHANGED <<users, scans, seq, assets, now, server, browser>>

\* bcrypt.compare settles
LoginCompare(r) ==
  /\ req[r].pc = "bcrypt"
  /\ Answer(r, loginFinish(req[r], now))
  /\ UNCHANGED <<users, scans, seq, assets, now, server, browser>>

\* POST /api/auth/verify-token
VerifyToken(r, H) ==
  /\ Free(r)
  /\ \E hdr \in H : Answer(r, verifyTokenRoute(NewReq("verify-token", hdr, NoBody, now), now))
  /\ UNCHANGED <<users, scans, seq, assets, now, server, browser>>

\* POST /api/upload/ arrives: authenticateToken and requireTechnician run,
\* then multer starts reading the body
UploadRequest(r, HB) ==
  /\ Free(r)
  /\ \E hb \in HB :
       LET g == Gate(NewReq("upload", hb[1], hb[2], now), now)
       IN  Answer(r, IF g.pc = "pass" THEN [g EXCEPT !.pc = "multer"] ELSE g)
  /\ UNCHANGED <<users, scans, seq, assets, now, server, browser>>

\* multer has read the body: its error handler answers, or the handler runs
\* up to the storage call
UploadParsed(r) ==
  /\ req[r].pc = "multer"
  /\ Answer(r, uploadParse(req[r]))
  /\ UNCHANGED <<users, scans, seq, assets, now, server, browser>>

\* the handler with a row inserted ahead of the storage call and left behind
\* when uploadImage rejects
UploadStorageFailedAfterInsert(r) ==
  /\ req[r].pc = "storage"
  /\ Len(scans) < MaxScans + NumReqs
  /\ \E message \in StorageErrors :
       Answer(r, Done([req[r] EXCEPT !.upload = "rejected"], uploadCatch(message), req[r].fx))
  /\ scans' = Append(scans, scanRow(req[r], seq + 1, SqlNull, now))
  /\ seq' = seq + 1
  /\ UNCHANGED <<users, assets, now, server, browser>>

\* uploadImage rejects
UploadStorageFailed(r) ==
  /\ req[r].pc = "storage"
  /\ \E message \in StorageErrors :
       Answer(r, Done([req[r] EXCEPT !.upload = "rejected"], uploadCatch(message), req[r].fx))
  /\ UNCHANGED <<users, scans, seq, assets, now, server, browser>>

\* the handler deleting the stored image again when the insert fails
UploadStoredRollingBack(r, Faults) ==
  /\ req[r].pc = "storage"
  /\ assets < MaxAssets
  /\ \E fault \in Faults :
       /\ fault \/ Len(scans) < MaxScans
       /\ LET q == [req[r] EXCEPT !.upload = "resolved"]
              imageUrl == assets + 1
              id == seq + 1
              row == scanRow(q, id, imageUrl, now)
              failure == insertScanError(users, row, fault)
              wrote == [q.fx EXCEPT !.writes = 1]
          IN  IF failure = NoFailure
                THEN /\ assets' = assets + 1
                     /\ scans' = Append(scans, row)
                     /\ seq' = id
                     /\ Answer(r, Done(q, [Reply(201, "", "Scan uploaded successfully")
                                             EXCEPT !.scan =
                                               <<scanReply(q, id, imageUrl, now)>>],
                                       wrote))
                ELSE /\ UNCHANGED <<scans, seq, assets>>
                     /\ Answer(r, Done(q, uploadCatch(failure), q.fx))
  /\ UNCHANGED <<users, now, server, browser>>

\* the insert written as INSERT OR REPLACE keyed on the patient: a new scan
\* takes the place of the patient's earlier ones
UploadStoredReplacing(r, Faults) ==
  /\ req[r].pc = "storage"
  /\ assets < MaxAssets
  /\ \E fault \in Faults :
       /\ fault \/ Len(scans) < MaxScans
       /\ LET q == [req[r] EXCEPT !.upload = "resolved"]
              imageUrl == assets + 1
              id == seq + 1
              row == scanRow(q, id, imageUrl, now)
              failure == insertScanError(users, row, fault)
              wrote == [q.fx EXCEPT !.writes = 1]
              others == SelectSeq(scans, LAMBDA x : x.patientId # row.patientId)
          IN  /\ assets' = assets + 1
              /\ IF failure = NoFailure
                   THEN /\ scans' = Append(others, row)
                        /\ seq' = id
                        /\ Answer(r, Done(q, [Reply(201, "", "Scan uploaded successfully")
                                                EXCEPT !.scan =
                                                  <<scanReply(q, id, imageUrl, now)>>],
                                          wrote))
                   ELSE /\ UNCHANGED <<scans, seq>>
                        /\ Answer(r, Done(q, uploadCatch(failure), q.fx))
  /\ UNCHANGED <<users, now, server, browser>>

\* the handler failing after its insert, while it builds the answer: the
\* catch block answers 500
UploadStoredThenFailing(r, Faults) ==
  /\ req[r].pc = "storage"
  /\ assets < MaxAssets
  /\ \E fault \in Faults :
       /\ fault \/ Len(scans) < MaxScans
       /\ LET q == [req[r] EXCEPT !.upload = "resolved"]
              imageUrl == assets + 1
              id == seq + 1
              row == scanRow(q, id, imageUrl, now)
              failure == insertScanError(users, row, fault)
              wrote == [q.fx EXCEPT !.writes = 1]
          IN  /\ assets' = assets + 1
              /\ IF failure = NoFailure
                   THEN /\ scans' = Append(scans, row)
                        /\ seq' = id
                        /\ Answer(r, Done(q, uploadCatch({"Cannot convert"}), wrote))
                   ELSE /\ UNCHANGED <<scans, seq>>
                        /\ Answer(r, Done(q, uploadCatch(failure), q.fx))
  /\ UNCHANGED <<users, now, server, browser>>

\* uploadImage resolves: the handler inserts the row and answers.  Faults
\* says whether the database itself may fail (TRUE) or work (FALSE).
UploadStored(r, Faults) ==
  /\ req[r].pc = "storage"
  /\ assets < MaxAssets
  /\ \E fault \in Faults :
       /\ fault \/ Len(scans) < MaxScans
       /\ LET q == [req[r] EXCEPT !.upload = "resolved"]
              imageUrl == assets + 1
              id == seq + 1
              row == scanRow(q, id, imageUrl, now)
              failure == insertScanError(users, row, fault)
              wrote == [q.fx EXCEPT !.writes = 1]
          IN  /\ assets' = assets + 1
              /\ IF failure = NoFailure
                   THEN /\ scans' = Append(scans, row)
                        /\ seq' = id
                        /\ Answer(r, Done(q, [Reply(201, "", "Scan uploaded successfully")
                                                EXCEPT !.scan =
                                                  <<scanReply(q, id, imageUrl, now)>>],
                                          wrote))
                   ELSE /\ UNCHANGED <<scans, seq>>
                        /\ Answer(r, Done(q, uploadCatch(failure), q.fx))
  /\ UNCHANGED <<users, now, server, browser>>

\* GET /api/upload/history
GetHistory(r, H) ==
  /\ Free(r)
  /\ \E hdr \in H :
       LET g == Gate(NewReq("history", hdr, NoBody, now), now)
       IN  \E q \in (IF g.pc = "pass" THEN historyRoute(g, scans) ELSE {g}) : Answer(r, q)
  /\ UNCHANGED <<users, scans, seq, assets, now, server, browser>>

\* GET /api/scans/
GetScans(r, H) ==
  /\ Free(r)
  /\ \E hdr \in H :
       LET g == Gate(NewReq("scans", hdr, NoBody, now), now)
       IN  \E q \in (IF g.pc = "pass" THEN scansRoute(g, scans, users) ELSE {g}) :
             Answer(r, q)
  /\ UNCHANGED <<users, scans, seq, assets, now, server, browser>>

\* GET /api/scans/stats
GetStats(r, H) ==
  /\ Free(r)
  /\ \E hdr \in H :
       LET g == Gate(NewReq("stats", hdr, NoBody, now), now)
       IN  \E q \in (IF g.pc = "pass" THEN statsRoute(g, scans, users, now) ELSE {g}) :
             Answer(r, q)
  /\ UNCHANGED <<users, scans, seq, assets, now, server, browser>>

\* GET /api/scans/search
GetSearch(r, HQ) ==
  /\ Free(r)
  /\ \E hq \in HQ :
       LET g == Gate(NewReq("search", hq[1], hq[2], now), now)
       IN  \E q \in (IF g.pc = "pass" THEN searchRoute(g, scans, users) ELSE {g}) :
             Answer(r, q)
  /\ UNCHANGED <<users, scans, seq, assets, now, server, browser>>

\* GET /api/scans/patient/:patientId
GetPatientScans(r, HP) ==
  /\ Free(r)
  /\ \E hp \in HP :
       LET g == Gate(NewReq("patient", hp[1], [patientId |-> hp[2]], now), now)
       IN  \E q \in (IF g.pc = "pass" THEN patientRoute(g, scans, users) ELSE {g}) :
             Answer(r, q)
  /\ UNCHANGED <<users, scans, seq, assets, now, server, browser>>

\* GET /api/scans/:id
GetScan(r, HI) ==
  /\ Free(r)
  /\ \E hi \in HI :
       LET g == Gate(NewReq("scan", hi[1], [id |-> hi[2]], now), now)
       IN  \E q \in (IF g.pc = "pass" THEN scanByIdRoute(g, scans, users) ELSE {g}) :
             Answer(r, q)
  /\ UNCHANGED <<users, scans, seq, assets, now, server, browser>>

(***************************************************************************)
(* Spec: one connection; clients hold tokens that login has just issued,   *)
(* or none; they upload valid bodies and read, as time passes.             *)
(***************************************************************************)
FreshHeaders(t) ==
  {NoHeader} \cup {Header("Bearer", jwtSign(UserPayload(u), JWT_SECRET, t)) : u \in users}

Next ==
  \/ Tick(UploadHours)
  \/ UploadRequest(1, FreshHeaders(now) \X ValidBodies)
  \/ UploadParsed(1)
  \/ UploadStorageFailed(1)
  \/ UploadStored(1, BOOLEAN)
  \/ GetHistory(1, FreshHeaders(now))
  \/ GetScans(1, FreshHeaders(now))

Spec == Init /\ [][Next]_vars

(***************************************************************************)
(* SpecAccess: one connection; clients of either role, or without a token, *)
(* call every protected endpoint.                                          *)
(***************************************************************************)
NextAccess ==
  \/ UploadRequest(1, FreshHeaders(now) \X {janeDoeBody})
  \/ UploadParsed(1)
  \/ UploadStorageFailed(1)
  \/ UploadStored(1, {FALSE})
  \/ GetHistory(1, FreshHeaders(now))
  \/ GetScans(1, FreshHeaders(now))
  \/ GetStats(1, FreshHeaders(now))
  \/ GetSearch(1, FreshHeaders(now) \X SearchRequests)
  \/ GetPatientScans(1, FreshHeaders(now) \X PatientIdParams)
  \/ GetScan(1, FreshHeaders(now) \X ScanIdParams)

SpecAccess == Init /\ [][NextAccess]_vars

(***************************************************************************)
(* SpecQuery: one connection; the seeded technician uploads valid bodies   *)
(* and the seeded dentist searches and looks patients up, as time passes.  *)
(***************************************************************************)
dentistHeader(t) ==
  Header("Bearer",
         jwtSign([id |-> 2, email |-> dentistEmail, role |-> "Dentist"], JWT_SECRET, t))

technicianHeader(t) ==
  Header("Bearer",
         jwtSign([id |-> 1, email |-> technicianEmail, role |-> "Technician"], JWT_SECRET, t))

InitQuery ==
  /\ users = SeededUsers
  /\ scans \in {<< >>, <<legacyRow>>}
  /\ seq = Len(scans)
  /\ assets = Len(scans)
  /\ now = 0
  /\ req = [r \in Reqs |-> IdleReq]
  /\ server = Listening
  /\ browser = NoBrowser

NextQuery ==
  \/ Tick(UploadHours)
  \/ UploadRequest(1, {technicianHeader(now)} \X ValidBodies)
  \/ UploadParsed(1)
  \/ UploadStored(1, {FALSE})
  \/ GetSearch(1, {dentistHeader(now)} \X SearchProbes)
  \/ GetPatientScans(1, {dentistHeader(now)} \X PatientIdProbes)

SpecQuery == InitQuery /\ [][NextQuery]_vars

(***************************************************************************)
(* SpecUpload: one connection; the seeded technician uploads every kind of *)
(* body.                                                                   *)
(***************************************************************************)
NextUpload ==
  \/ UploadRequest(1, {technicianHeader(now)} \X UploadBodies)
  \/ UploadParsed(1)
  \/ UploadStorageFailed(1)
  \/ UploadStored(1, BOOLEAN)

SpecUpload == Init /\ [][NextUpload]_vars

(***************************************************************************)
(* SpecConc: the connections of Reqs are served at once; technicians       *)
(* upload valid bodies and read their history.                             *)
(***************************************************************************)
TechnicianHeaders(t) ==
  {Header("Bearer", jwtSign(UserPayload(u), JWT_SECRET, t)) :
     u \in {x \in users : x.role = "Technician"}}

NextConc ==
  \/ \E r \in Reqs : UploadRequest(r, TechnicianHeaders(now) \X {janeDoeBody})
  \/ \E r \in Reqs : UploadParsed(r)
  \/ \E r \in Reqs : UploadStorageFailed(r)
  \/ \E r \in Reqs : UploadStored(r, {FALSE})
  \/ \E r \in Reqs : GetHistory(r, TechnicianHeaders(now))

\* the users table holds two technicians
InitConc ==
  /\ users = SeededUsers \cup {ExtraUser}
  /\ scans = << >>
  /\ seq = 0
  /\ assets = 0
  /\ now = 0
  /\ req = [r \in Reqs |-> IdleReq]
  /\ server = Listening
  /\ browser = NoBrowser

SpecConc == InitConc /\ [][NextConc]_vars

(***************************************************************************)
(* SpecRole: the role middleware on its own, applied to every request      *)
(* context and allow-list, then the handler it guards.                     *)
(***************************************************************************)
RoleInputs ==
  {NoUser} \cup {Identity(id, email, role) :
                    id \in {1, 2}, email \in {technicianEmail, dentistEmail},
                    role \in {"Technician", "Dentist", "Admin", ""}}

\* the allow-lists of requireTechnician, requireDentist and requireAnyRole,
\* and the empty list
AllowLists == {<<"Technician">>, <<"Dentist">>, <<"Technician", "Dentist">>, << >>}

InitRole ==
  /\ users = SeededUsers
  /\ scans = << >>
  /\ seq = 0
  /\ assets = 0
  /\ now = 0
  /\ \E user \in RoleInputs : \E allowedRoles \in AllowLists :
       req = [r \in Reqs |->
                IF r = 1
                  THEN [IdleReq EXCEPT !.route = "guarded", !.pc = "role", !.user = user,
                                       !.body = [allowedRoles |-> allowedRoles]]
                  ELSE IdleReq]
  /\ server = Listening
  /\ browser = NoBrowser

\* the middleware requireRole(allowedRoles) returns, run on the request
RoleCheck(r) ==
  /\ req[r].pc = "role"
  /\ LET q == req[r]
         g == requireRole(q.body.allowedRoles, q.user)
         fx == [q.fx EXCEPT !.role = TRUE]
     IN  Answer(r, IF g.next THEN [q EXCEPT !.pc = "pass", !.fx = fx] ELSE Done(q, g.res, fx))
  /\ UNCHANGED <<users, scans, seq, assets, now, server, browser>>

\* next(): the handler the middleware guards
GuardedHandler(r) ==
  /\ req[r].pc = "pass"
  /\ req[r].route = "guarded"
  /\ Answer(r, Done(req[r], Reply(200, "", "handled"), [req[r].fx EXCEPT !.handler = TRUE]))
  /\ UNCHANGED <<users, scans, seq, assets, now, server, browser>>

NextRole ==
  \/ RoleCheck(1)
  \/ GuardedHandler(1)

SpecRole == InitRole /\ [][NextRole]_vars

(***************************************************************************)
(* SpecAuth: one connection; clients present every kind of token and log   *)
(* in with every kind of credentials, as time passes.                      *)
(***************************************************************************)
NextAuth ==
  \/ Tick(MaxTime)
  \/ LoginRequest(1, LoginBodies)
  \/ LoginCompare(1)
  \/ VerifyToken(1, Headers(now))
  \/ GetHistory(1, Headers(now))
  \/ GetScans(1, Headers(now))

SpecAuth == Init /\ [][NextAuth]_vars

(***************************************************************************)
(* SpecLogout: a user logs in from the browser, which stores the token,    *)
(* and logs out; whoever holds the stored or the removed token calls the   *)
(* server with it.                                                         *)
(***************************************************************************)
\* the login form filled in with the credentials of a seeded account
FormLogins ==
  {[email |-> technicianEmail, password |-> Text("technician123")],
   [email |-> dentistEmail, password |-> Text("dentist123")]}

\* handleSubmit after authAPI.login resolved: the token and the user of the
\* response are stored, and the router is sent to the dashboard of the role
LoginSucceeded(r) ==
  /\ req[r].route = "login" /\ req[r].pc = "done" /\ req[r].res.status = 200
  /\ browser.token # req[r].res.token
  /\ browser' = redirectByRole(saveAuthData(browser, req[r].res.token, req[r].res.user),
                              req[r].res.user.role)
  /\ UNCHANGED <<users, scans, seq, assets, now, req, server>>

\* a logout that also tells the server, on a connection of its own
handleLogoutNotifyingServer ==
  /\ browser.token # NoToken
  /\ browser' = goto(logout(browser, now), "/")
  /\ Answer(NumReqs, NewReq("logout", Header("Bearer", browser.token), NoBody, now))
  /\ UNCHANGED <<users, scans, seq, assets, now, server>>

\* handleLogout of the page header: logout(), then navigate('/')
handleLogout ==
  /\ browser.token # NoToken
  /\ browser' = goto(logout(browser, now), "/")
  /\ UNCHANGED <<users, scans, seq, assets, now, req, server>>

\* the headers a holder of the stored or of the removed token sends
HeldHeaders == {Header("Bearer", k) : k \in {browser.token, browser.removed} \ {NoToken}}

NextLogout ==
  \/ Tick(MaxTime)
  \/ LoginRequest(1, FormLogins)
  \/ LoginCompare(1)
  \/ LoginSucceeded(1)
  \/ handleLogout
  \/ VerifyToken(1, HeldHeaders)
  \/ GetHistory(1, HeldHeaders)
  \/ GetScans(1, HeldHeaders)

SpecLogout == Init /\ [][NextLogout]_vars

(***************************************************************************)
(* SpecBoot: init.js is run on the database file, once or more; server.js  *)
(* is started and serves the auth endpoints.                               *)
(***************************************************************************)
\* node database/init.js
initializeDatabase ==
  /\ server.inits < MaxInits
  /\ users' = seedUsers(users)
  /\ server' = [server EXCEPT !.inits = @ + 1,
                              !.console = @ \cup (IF Cardinality(users) = 0
                                                    THEN seedLog ELSE skipLog)]
  /\ UNCHANGED <<scans, seq, assets, now, req, browser>>

\* node server.js: app.listen calls back
listen ==
  /\ server.phase = "down"
  /\ server.inits >= 1
  /\ server' = [server EXCEPT !.phase = "listening", !.console = @ \cup listenLog]
  /\ UNCHANGED <<users, scans, seq, assets, now, req, browser>>

\* GET /api/auth/test-users arrives
GetTestUsers(r) ==
  /\ Free(r)
  /\ Answer(r, testUsersRoute(NewReq("test-users", NoHeader, NoBody, now), users))
  /\ UNCHANGED <<users, scans, seq, assets, now, server, browser>>

\* the database file as init.js can find it: new, seeded, seeded with a
\* further account, or holding an account of its own only
InitBoot ==
  /\ users \in {{}, SeededUsers, SeededUsers \cup {ExtraUser}, {ExtraUser}}
  /\ scans = << >>
  /\ seq = 0
  /\ assets = 0
  /\ now = 0
  /\ req = [r \in Reqs |-> IdleReq]
  /\ server = Down
  /\ browser = NoBrowser

BootLogins ==
  FormLogins \cup {[email |-> technicianEmail, password |-> Text("wrong")],
                   [email |-> secondTechnicianEmail, password |-> Text("tech2pass")]}

NextBoot ==
  \/ initializeDatabase
  \/ listen
  \/ server.phase = "listening" /\ LoginRequest(1, BootLogins)
  \/ server.phase = "listening" /\ LoginCompare(1)
  \/ server.phase = "listening" /\ VerifyToken(1, Headers(now))
  \/ server.phase = "listening" /\ GetTestUsers(1)

SpecBoot == InitBoot /\ [][NextBoot]_vars

(***************************************************************************)
(* SpecStats: the dentist reads the statistics of a database that is new   *)
(* and filled by the technician, or that has been in use for weeks by six  *)
(* technicians.  Hours before the start of the model's clock are negative. *)
(***************************************************************************)
\* the email of the n-th further technician
techEmail(n) ==
  <<"t","e","c","h", DigitChars[n + 1]>> \o <<"@","o","r","a","l","v","i","s",".","c","o","m">>

\* a users table with six technicians: ids 1 and 3 to 7
ClinicUsers ==
  SeededUsers \cup {[id |-> n, email |-> techEmail(n), password |-> bcryptHash("tech2pass"),
                     role |-> "Technician"] : n \in 3..7}

\* a row of the scans table uploaded before the start of the model's clock
oldScan(id, patientId, region, uploadDate, uploadedBy) ==
  [id |-> id, patientName |-> <<"O","l","d">>, patientId |-> patientId,
   scanType |-> "RGB", region |-> region, imageUrl |-> id, uploadDate |-> uploadDate,
   uploadedBy |-> uploadedBy]

\* the hours of a week
week == recentDays * 24

\* ten scans of four patients by the six technicians: two from before the
\* last week, one that leaves the last week at the first tick of the clock
clinicScans ==
  <<oldScan(1, <<"P","0","0","1">>, "Frontal", -(week + UploadHours), 1),
    oldScan(2, <<"P","0","0","1">>, "Upper Arch", -(week + UploadHours), 3),
    oldScan(3, <<"P","0","0","2">>, "Frontal", 1 - week, 4),
    oldScan(4, <<"P","0","0","3">>, "Lower Arch", -UploadHours, 5),
    oldScan(5, <<"P","0","0","3">>, "Frontal", -UploadHours, 6),
    oldScan(6, <<"P","0","0","4">>, "Frontal", -3, 7),
    oldScan(7, <<"P","0","0","4">>, "Upper Arch", -3, 1),
    oldScan(8, <<"P","0","0","4">>, "Lower Arch", -2, 1),
    oldScan(9, <<"P","0","0","2">>, "Frontal", -2, 3),
    oldScan(10, <<"P","0","0","2">>, "Upper Arch", -1, 4)>>

InitStats ==
  /\ \/ users = SeededUsers /\ scans = << >>
     \/ users = ClinicUsers /\ scans = clinicScans
  /\ seq = Len(scans)
  /\ assets = Len(scans)
  /\ now = 0
  /\ req = [r \in Reqs |-> IdleReq]
  /\ server = Listening
  /\ browser = NoBrowser

NextStats ==
  \/ Tick(UploadHours)
  \/ UploadRequest(1, {technicianHeader(now)} \X ValidBodies)
  \/ UploadParsed(1)
  \/ UploadStored(1, {FALSE})
  \/ GetStats(1, {dentistHeader(now)})

SpecStats == InitStats /\ [][NextStats]_vars

(***************************************************************************)
(* SpecLists: the technician uploads at different hours and reads the      *)
(* history; the dentist reads the list, a patient's scans and searches.    *)
(***************************************************************************)
\* searches that match the scans of every upload
ListSearches ==
  {Search(<<"0", "0">>, "", "", NoParam),
   Search(<<"0", "0">>, "", "", Param(<<"1">>)),
   Search(<<"0", "0">>, "", "RGB", NoParam)}

NextLists ==
  \/ Tick(MaxTime)
  \/ UploadRequest(1, {technicianHeader(now)} \X {janeDoeBody})
  \/ UploadParsed(1)
  \/ UploadStored(1, {FALSE})
  \/ GetHistory(1, {technicianHeader(now)})
  \/ GetScans(1, {dentistHeader(now)})
  \/ GetSearch(1, {dentistHeader(now)} \X ListSearches)
  \/ GetPatientScans(1, {dentistHeader(now)} \X {p001})

SpecLists == InitQuery /\ [][NextLists]_vars

(***************************************************************************)
(* SpecDashboard: the dentist searches from the dashboard form             *)
(* (pages/DentistDashboard.jsx, utils/api.js) while the technician         *)
(* uploads.                                                                *)
(***************************************************************************)
\* value || undefined, for the value of a selector
orUndefined(value) == IF value = "" THEN Undefined ELSE Text(value)

\* the text URLSearchParams makes of the value of an entry: String(value)
USVString(value) == IF value.type = "undefined" THEN "undefined" ELSE value.val

\* the filters handleSearch passes to scansAPI.searchScans
handleSearchFilters(form) ==
  [region |-> orUndefined(form.region), scanType |-> orUndefined(form.scanType)]

\* scansAPI.searchScans(query, filters): the query string
\* new URLSearchParams({ query, ...filters }) as the server parses it
searchScans(query, filters) ==
  Search(query, USVString(filters.region), USVString(filters.scanType), NoParam)

\* the search box and the two selectors, "" being the option Any
DashboardForms ==
  [search : {<<"0", "0">>, <<" ", "j", "a", " ">>, <<"x">>},
   region : {"", "Frontal"},
   scanType : {"", "RGB"}]

\* handleSearch sends nothing for a text of fewer than 2 characters
handleSearchSends(form) == ~(form.search = << >> \/ Len(trim(form.search)) < 2)

\* the requests handleSearch sends
DashboardSearches ==
  {searchScans(trim(form.search), handleSearchFilters(form)) :
     form \in {f \in DashboardForms : handleSearchSends(f)}}

NextDashboard ==
  \/ Tick(UploadHours)
  \/ UploadRequest(1, {technicianHeader(now)} \X ValidBodies)
  \/ UploadParsed(1)
  \/ UploadStored(1, {FALSE})
  \/ GetSearch(1, {dentistHeader(now)} \X DashboardSearches)

SpecDashboard == InitQuery /\ [][NextDashboard]_vars

(***************************************************************************)
(* SpecResponses: one connection; clients of either role, or without a     *)
(* token, upload every kind of body; the storage and the database may      *)
(* fail.                                                                   *)
(***************************************************************************)
ResponseBodies ==
  LET b == janeDoeBody
  IN  ValidBodies
      \cup {[b EXCEPT !.patientId = <<"p", "1">>]}
      \cup {[b EXCEPT !.file = f] :
             f \in {NoFile,
                    File("scanImage", <<"application", "pdf">>, 2048),
                    File("scanImage", <<"image", "jpeg">>, maxFileSize + 1),
                    File("photo", <<"image", "jpeg">>, 2048)}}

NextResponses ==
  \/ UploadRequest(1, FreshHeaders(now) \X ResponseBodies)
  \/ UploadParsed(1)
  \/ UploadStorageFailed(1)
  \/ UploadStored(1, BOOLEAN)

SpecResponses == Init /\ [][NextResponses]_vars

(***************************************************************************)
(* SpecGuard: the browser opens the routes of the application with what    *)
(* its storage holds: nothing, the token of a login, or a token the        *)
(* server did not sign.  The route elements guard the pages; the hours     *)
(* pass.  FairSpecGuard adds that React runs the renders and effects that  *)
(* are due and that a call is answered or times out.                       *)
(***************************************************************************)
Paths == {"/", "/technician", "/dentist", "/other"}

\* the Routes of App: the allowed roles of a path's element
allowedRoles(path) ==
  IF path = "/technician" THEN {"Technician"}
  ELSE IF path = "/dentist" THEN {"Dentist"}
  ELSE {}

requireAuth(path) == path # "/"

Dashboard(role) ==
  IF role = "Technician" THEN "/technician" ELSE IF role = "Dentist" THEN "/dentist" ELSE ""

\* an expired token left in the storage
isAuthenticatedKeepingExpired(b, t) ==
  IF b.token = NoToken \/ ~b.user.set THEN [ok |-> FALSE, b |-> b]
  ELSE IF b.token.form # "jwt" THEN [ok |-> FALSE, b |-> b]
  ELSE IF b.token.exp # 0 /\ b.token.exp < t THEN [ok |-> FALSE, b |-> b]
  ELSE [ok |-> TRUE, b |-> b]

\* isAuthenticated() at time t: its result and the storage it leaves
isAuthenticated(b, t) ==
  IF b.token = NoToken \/ ~b.user.set THEN [ok |-> FALSE, b |-> b]
  ELSE IF b.token.form # "jwt" THEN [ok |-> FALSE, b |-> b]
  ELSE IF b.token.exp # 0 /\ b.token.exp < t THEN [ok |-> FALSE, b |-> logout(b, t)]
  ELSE [ok |-> TRUE, b |-> b]

\* hasRole(roles) at time t
hasRole(b, roles, t) ==
  LET user == b.user
      a == isAuthenticated(b, t)
  IN  IF ~user.set \/ ~a.ok THEN [ok |-> FALSE, b |-> a.b]
      ELSE [ok |-> user.role \in roles, b |-> a.b]

\* the address bar, a link or a bookmark: the browser opens a path
navigate ==
  /\ browser.pc = "idle"
  /\ \E path \in Paths : browser' = goto(browser, path)
  /\ UNCHANGED <<users, scans, seq, assets, now, req, server>>

\* the element of the path is rendered for the first time: the catch-all
\* route and PublicRoute redirect, a ProtectedRoute shows the spinner
routeRender ==
  /\ browser.pc = "route"
  /\ LET b == browser
         user == b.user
         a == isAuthenticated(b, now)
     IN  browser' =
           IF b.path \notin {"/", "/technician", "/dentist"} THEN goto(b, "/")
           ELSE IF b.path = "/" /\ a.ok /\ Dashboard(user.role) # ""
             THEN goto(a.b, Dashboard(user.role))
           ELSE IF b.path = "/"
             THEN [a.b EXCEPT !.pc = "validating", !.page = "spinner"]
           ELSE [b EXCEPT !.pc = "validating", !.page = "spinner"]
  /\ UNCHANGED <<users, scans, seq, assets, now, req, server>>

\* the effect of ProtectedRoute: validateAuthentication up to its await
validateAuthentication ==
  /\ browser.pc = "validating"
  /\ LET b == browser
         a == isAuthenticated(b, now)
     IN  browser' =
           IF ~requireAuth(b.path)
             THEN [b EXCEPT !.isValidating = FALSE, !.tokenValid = TRUE, !.pc = "render"]
           ELSE IF ~a.ok
             THEN [a.b EXCEPT !.tokenValid = FALSE, !.isValidating = FALSE, !.pc = "render"]
           ELSE [a.b EXCEPT !.pc = "calling", !.hdr = Header("Bearer", b.token)]
  /\ UNCHANGED <<users, scans, seq, assets, now, req, server>>

\* authAPI.verifyToken settles: the server answers, and the response
\* interceptor and the rest of validateAuthentication run
verifyAnswered ==
  /\ browser.pc = "calling"
  /\ server.phase = "listening"
  /\ LET b == browser
         q == verifyTokenRoute(NewReq("verify-token", b.hdr, NoBody, now), now)
     IN  /\ Answer(1, q)
         /\ browser' =
              IF q.res.status = 200
                THEN [b EXCEPT !.tokenValid = TRUE, !.verified = TRUE,
                               !.isValidating = FALSE, !.pc = "render"]
              ELSE IF q.res.status = 401
                THEN goto(logout(b, now), "/")
              ELSE [logout(b, now) EXCEPT !.tokenValid = FALSE,
                                          !.isValidating = FALSE, !.pc = "render"]
  /\ UNCHANGED <<users, scans, seq, assets, now, server>>

\* authAPI.verifyToken fails without a response: the 30 seconds of the
\* axios instance passed, or the network failed
verifyTimedOut ==
  /\ browser.pc = "calling"
  /\ browser' = [logout(browser, now) EXCEPT !.tokenValid = FALSE,
                                             !.isValidating = FALSE, !.pc = "render"]
  /\ UNCHANGED <<users, scans, seq, assets, now, req, server>>

\* ProtectedRoute renders after validation
render ==
  /\ browser.pc = "render"
  /\ LET b == browser
         h == hasRole(b, allowedRoles(b.path), now)
     IN  browser' =
           IF requireAuth(b.path) /\ ~b.tokenValid THEN goto(b, "/")
           ELSE IF allowedRoles(b.path) # {} /\ b.tokenValid /\ ~h.ok
             THEN [h.b EXCEPT !.page = "denied", !.pc = "idle"]
           ELSE IF allowedRoles(b.path) # {} /\ b.tokenValid
             THEN [h.b EXCEPT !.page = b.path, !.pc = "idle"]
           ELSE [b EXCEPT !.page = "login", !.pc = "mounted"]
  /\ UNCHANGED <<users, scans, seq, assets, now, req, server>>

\* the effect of the login page
loginEffect ==
  /\ browser.pc = "mounted"
  /\ LET b == browser
         a == isAuthenticated(b, now)
     IN  browser' =
           IF a.ok /\ Dashboard(a.b.user.role) # ""
             THEN redirectByRole(a.b, a.b.user.role)
           ELSE [a.b EXCEPT !.pc = "idle"]
  /\ UNCHANGED <<users, scans, seq, assets, now, req, server>>

\* a call of a dashboard is answered 401: the response interceptor logs out
\* and loads the login page
interceptUnauthorized ==
  /\ browser.pc = "idle"
  /\ browser.page \in {"/technician", "/dentist"}
  /\ LET a == authenticateToken(Header("Bearer", browser.token), now)
     IN  ~a.next /\ a.res.status = 401
  /\ browser' = goto(logout(browser, now), "/")
  /\ UNCHANGED <<users, scans, seq, assets, now, req, server>>

\* what the storage can hold: nothing, or what a login at hour 0 stored, or
\* a token not signed by the server with the user of its payload
GuardBrowsers ==
  {NoBrowser}
  \cup {saveAuthData(NoBrowser, jwtSign(UserPayload(u), JWT_SECRET, 0),
                     Identity(u.id, u.email, u.role)) : u \in SeededUsers}
  \cup {saveAuthData(NoBrowser, k, Identity(k.id, k.email, k.role)) : k \in ForgedTokens}

InitGuard ==
  /\ users = SeededUsers
  /\ scans = << >>
  /\ seq = 0
  /\ assets = 0
  /\ now = 0
  /\ req = [r \in Reqs |-> IdleReq]
  /\ server = Listening
  /\ browser \in GuardBrowsers

GuardStep ==
  \/ routeRender
  \/ validateAuthentication
  \/ verifyAnswered
  \/ verifyTimedOut
  \/ render
  \/ loginEffect

NextGuard ==
  \/ Tick(MaxTime)
  \/ navigate
  \/ GuardStep
  \/ interceptUnauthorized

SpecGuard == InitGuard /\ [][NextGuard]_vars

FairSpecGuard ==
  /\ SpecGuard
  /\ WF_vars(routeRender)
  /\ WF_vars(validateAuthentication)
  /\ WF_vars(verifyAnswered \/ verifyTimedOut)
  /\ WF_vars(render)
  /\ WF_vars(loginEffect)

(***************************************************************************)
(* Properties.                                                             *)
(***************************************************************************)
\* the token a request presents: the second word of its Authorization header
PresentedToken(q) == IF q.hdr.present THEN q.hdr.token ELSE NoToken

NoTokenPresented(q) == PresentedToken(q).form = "none"
BadlyFormedOrSigned(k) == k.form # "jwt" \/ k.sig # JWT_SECRET
NotYetValid(k, t) == k.nbf # NoNbf /\ k.nbf > t
PastExpiry(k, t) == k.exp <= t

AuthRoutes == ProtectedRoutes \cup {"verify-token"}

\* the request was answered with the status before anything behind the token
\* check ran, and no identity was attached or returned
Refused(q, status) ==
  /\ q.pc = "done" /\ q.res.status = status
  /\ ~q.user.set /\ ~q.res.user.set
  /\ ~q.fx.role /\ ~q.fx.parsed /\ q.fx.storage = 0 /\ q.fx.reads = 0 /\ q.fx.writes = 0
  /\ q.route \in ProtectedRoutes => ~q.fx.handler

\* the token's {id, email, role} became the request's identity and the
\* request went on (POST /verify-token returns the identity instead)
Accepted(q) ==
  LET k == PresentedToken(q)
      identity == Identity(k.id, k.email, k.role)
  IN  IF q.route = "verify-token"
        THEN q.pc = "done" /\ q.res.status = 200 /\ q.res.user = identity
        ELSE q.user = identity /\ q.fx.role

\* C1: on every protected endpoint a request whose token verifies to a role
\* outside the endpoint's allow-list is answered 403, and neither multer nor
\* the handler runs for it: no file is parsed, no storage call is made, no
\* table is read or written.
C1_RoleMismatchForbidden ==
  \A r \in Reqs :
    LET q == req[r]
    IN  (q.route \in ProtectedRoutes /\ q.user.set
           /\ q.user.role \notin AllowedRoles(q.route))
          => /\ q.pc = "done" /\ q.res.status = 403
             /\ ~q.fx.parsed /\ ~q.fx.handler
             /\ q.fx.storage = 0 /\ q.fx.reads = 0 /\ q.fx.writes = 0

C1_Witness ==
  \E r \in Reqs :
    /\ req[r].route = "search" /\ req[r].user.role = "Technician"
    /\ Len(scans) > 0 /\ req[r].res.status = 403

C3_ExpiredAlwaysExpired ==
  \A r \in Reqs :
    LET q == req[r]
        k == PresentedToken(q)
    IN  (q.route \in AuthRoutes /\ q.pc # "idle" /\ k.form = "jwt" /\ k.exp < q.at)
          => q.res.status = 401 /\ q.res.error = "Token expired"

\* C3 as amended: a correctly signed token whose not-before time, if it has
\* one, has come and whose expiry is in the past is answered 401 "Token
\* expired", never 403 "Invalid token".
C3_SignedExpiredIsExpired ==
  \A r \in Reqs :
    LET q == req[r]
        k == PresentedToken(q)
    IN  (q.route \in AuthRoutes /\ q.pc # "idle" /\ k.form = "jwt" /\ k.exp < q.at
           /\ k.sig = JWT_SECRET /\ ~NotYetValid(k, q.at))
          => Refused(q, 401) /\ q.res.error = "Token expired"

C3_Witness ==
  \E r \in Reqs :
    LET q == req[r]
        k == PresentedToken(q)
    IN  /\ q.route \in ProtectedRoutes /\ q.pc = "done"
        /\ k.form = "jwt" /\ k.sig = JWT_SECRET /\ k.exp < q.at
        /\ q.res.error = "Token expired"

\* the login request names a stored user and carries that user's password
MatchesCredential(body, usersTbl) ==
  \E u \in usersTbl :
    /\ toLowerCase(body.email) = toLowerCase(u.email)
    /\ body.password.type = "string"
    /\ bcryptHash(body.password.val) = u.password

BothPresent(body) == body.email # << >> /\ ~Falsy(body.password)

InvalidCredentials == Reply(401, "Invalid credentials", "Email or password is incorrect")

\* C4, for well-formed addresses: every login whose email is a well-formed
\* address and whose password is present, and that match no stored
\* credential, gets the one 401 "Invalid credentials" response, whether the
\* email is unknown or known.
C4_UniformInvalidCredentials ==
  \A r \in Reqs :
    LET q == req[r]
    IN  (q.route = "login" /\ q.pc = "done" /\ BothPresent(q.body)
           /\ emailRegex(q.body.email) /\ ~MatchesCredential(q.body, users))
          => q.res = InvalidCredentials

\* C5: a login with a stored user's password and that user's email in any
\* letter case is answered 200 with a token that verifies to the user's
\* stored id, email and role, and with the same three values as user.
C5_LoginIssuesUsersToken ==
  \A r \in Reqs : \A u \in users :
    LET q == req[r]
        v == jwtVerify(q.res.token, JWT_SECRET, q.res.token.iat)
    IN  (q.route = "login" /\ q.pc = "done"
           /\ toLowerCase(q.body.email) = toLowerCase(u.email)
           /\ q.body.password.type = "string"
           /\ bcryptHash(q.body.password.val) = u.password)
          => /\ q.res.status = 200
             /\ v = [name |-> "ok", id |-> u.id, email |-> u.email, role |-> u.role]
             /\ q.res.user = Identity(u.id, u.email, u.role)

C5_Witness ==
  \E r \in Reqs :
    /\ req[r].route = "login" /\ req[r].pc = "done"
    /\ req[r].body.email = mixedCaseTechnicianEmail
    /\ req[r].res.status = 200 /\ req[r].res.user.id = 1

\* C6: the role check on a request without a verified identity answers 401
\* and the handler is not called, whatever the allow-list.
C6_FailsClosed ==
  \A r \in Reqs :
    LET q == req[r]
    IN  (q.route = "guarded" /\ q.pc # "role" /\ ~q.user.set)
          => q.pc = "done" /\ q.res.status = 401 /\ ~q.fx.handler

C6_Witness ==
  \E r \in Reqs :
    /\ req[r].route = "guarded" /\ req[r].pc = "done" /\ ~req[r].user.set
    /\ req[r].fx.role /\ req[r].body.allowedRoles = <<"Technician", "Dentist">>
    /\ req[r].res.status = 401

\* C7: every record GET /upload/history returns to a technician is a scan
\* row whose uploadedBy is that technician's id, however the uploads of the
\* technicians interleave.
C7_HistoryIsOwn ==
  \A r \in Reqs :
    LET q == req[r]
    IN  (q.route = "history" /\ q.pc = "done" /\ q.res.status = 200)
          => /\ q.user.id = PresentedToken(q).id
             /\ \A j \in 1..Len(q.res.rows) :
                  \E i \in 1..Len(scans) :
                    /\ scans[i].id = q.res.rows[j].id
                    /\ scans[i].uploadedBy = q.user.id

C7_Witness ==
  \E r \in Reqs :
    LET q == req[r]
    IN  /\ q.route = "history" /\ q.res.status = 200 /\ Len(q.res.rows) >= 1
        /\ \E i \in 1..Len(scans) : scans[i].uploadedBy \notin {q.user.id, SqlNull}

\* C8: GET /scans/ answers a dentist with every row of the scans table
\* exactly once and with count equal to the number of rows, whoever uploaded
\* them and also when the uploader matches no user.
C8_DentistSeesAllScans ==
  \A r \in Reqs :
    LET q == req[r]
    IN  (q.route = "scans" /\ q.pc = "done" /\ q.user.role = "Dentist")
          => /\ q.res.status = 200
             /\ q.res.count = Len(scans)
             /\ Len(q.res.rows) = Len(scans)
             /\ \A i \in 1..Len(scans) :
                  Cardinality({j \in 1..Len(q.res.rows) :
                                 /\ q.res.rows[j].id = scans[i].id
                                 /\ q.res.rows[j].patientId = scans[i].patientId
                                 /\ q.res.rows[j].imageUrl = scans[i].imageUrl}) = 1

C8_Witness ==
  \E r \in Reqs :
    LET q == req[r]
    IN  /\ q.route = "scans" /\ q.res.status = 200 /\ q.res.count >= 2
        /\ \E j \in 1..Len(q.res.rows) : q.res.rows[j].uploader.email = << >>
        /\ \E j \in 1..Len(q.res.rows) : q.res.rows[j].uploader.role = "Technician"

\* the upload request fails a validation: the file is missing, of a type
\* other than JPEG or PNG or over 10 MiB, or a field is missing or breaks
\* its format (name: 2 to 50 letters, white space, hyphens once trimmed;
\* id: 3 to 20 letters and digits) or its enum
InvalidUpload(body) ==
  LET name == trim(body.patientName)
      file == body.file
  IN  \/ ~file.present \/ file.fieldname # "scanImage"
      \/ file.mimetype \notin {<<"image", "jpeg">>, <<"image", "jpg">>, <<"image", "png">>}
      \/ file.size > 10 * 1024 * 1024
      \/ body.patientName = << >> \/ body.patientId = << >>
      \/ body.scanType # "RGB"
      \/ body.region \notin {"Frontal", "Upper Arch", "Lower Arch"}
      \/ Len(name) < 2 \/ Len(name) > 50
      \/ \E i \in 1..Len(name) : ~(IsLetter(name[i]) \/ IsSpace(name[i]) \/ name[i] = "-")
      \/ Len(body.patientId) < 3 \/ Len(body.patientId) > 20
      \/ \E i \in 1..Len(body.patientId) :
           ~(IsLetter(body.patientId[i]) \/ IsDigit(body.patientId[i]))

C10_StorageFailureLeavesNoRow ==
  [][\A r \in Reqs :
       (req[r].pc = "storage" /\ req'[r].upload = "rejected")
         => /\ scans' = scans /\ seq' = seq
            /\ req'[r].pc = "done" /\ req'[r].res.status = 500
            /\ req'[r].fx.writes = 0]_vars

C10_Witness ==
  \E r \in Reqs :
    /\ req[r].route = "upload" /\ req[r].pc = "done" /\ req[r].upload = "rejected"
    /\ req[r].fx.storage = 1 /\ req[r].res.status = 500

\* C11: every scan row's imageUrl is the URL of an image the storage holds,
\* and a row is inserted only in the step that follows the completed storage
\* write of its own request, with that write's URL; when the insert fails
\* after the storage write, the request is answered with an error, the image
\* stays in the storage and no row refers to it.
C11_StorageBeforeInsert ==
  /\ [](\A i \in 1..Len(scans) : scans[i].imageUrl \in 1..assets)
  /\ [][/\ assets' >= assets
        /\ Len(scans') > Len(scans)
             => \E r \in Reqs :
                  /\ req[r].pc = "storage" /\ req'[r].upload = "resolved"
                  /\ assets' = assets + 1
                  /\ scans' = Append(scans, scans'[Len(scans')])
                  /\ scans'[Len(scans')].imageUrl = assets'
        /\ \A r \in Reqs :
             (req[r].pc = "storage" /\ req'[r].upload = "resolved"
                /\ req'[r].res.status # 201)
               => /\ req'[r].pc = "done" /\ req'[r].res.status >= 400
                  /\ assets' = assets + 1
                  /\ scans' = scans
                  /\ \A i \in 1..Len(scans') : scans'[i].imageUrl # assets']_vars

C11_Witness ==
  \E r \in Reqs :
    /\ req[r].route = "upload" /\ req[r].pc = "done" /\ req[r].upload = "resolved"
    /\ req[r].res.status = 500 /\ assets > Len(scans) /\ Len(scans) > 0

\* C12: every scan row has a patientId of 3 to 20 letters and digits that is
\* its own uppercase form, a trimmed patientName of 2 to 50 letters, spaces
\* and hyphens, scanType RGB, a region of Frontal, Upper Arch, Lower Arch, an
\* imageUrl, and as uploadedBy the id of a Technician (or no uploader, for a
\* row whose uploader is gone).
C12_RowFormat ==
  \A i \in 1..Len(scans) :
    LET row == scans[i]
    IN  /\ Len(row.patientId) >= 3 /\ Len(row.patientId) <= 20
        /\ \A k \in 1..Len(row.patientId) :
             IsLetter(row.patientId[k]) \/ IsDigit(row.patientId[k])
        /\ row.patientId = toUpperCase(row.patientId)
        /\ row.patientName = trim(row.patientName)
        /\ Len(row.patientName) >= 2 /\ Len(row.patientName) <= 50
        /\ \A k \in 1..Len(row.patientName) :
             IsLetter(row.patientName[k]) \/ row.patientName[k] \in {" ", "-"}
        /\ row.scanType = "RGB"
        /\ row.region \in {"Frontal", "Upper Arch", "Lower Arch"}
        /\ row.imageUrl # SqlNull
        /\ \/ row.uploadedBy = SqlNull
           \/ \E u \in users : u.id = row.uploadedBy /\ u.role = "Technician"

\* text a occurs in text b
Contains(b, a) ==
  \E k \in 0..(Len(b) - Len(a)) : SubSeq(b, k + 1, k + Len(a)) = a

AlphaNumeric(s) == \A k \in 1..Len(s) : IsLetter(s[k]) \/ IsDigit(s[k])

\* the limit a search request asks for: the number it carries, else 50
AskedLimit(body) == IF body.limit.given THEN parseInt(body.limit.val).n ELSE 50

\* the row passes the filters the search request carries
PassesFilters(row, body) ==
  /\ body.region # "" => row.region = body.region
  /\ body.scanType # "" => row.scanType = body.scanType

\* the step inserts a row whose patientId is the uppercase form of the
\* patientId its request submitted
StoresUppercaseId ==
  Len(scans') > Len(scans)
    => \E r \in Reqs :
         /\ req[r].pc = "storage"
         /\ scans'[Len(scans')].patientId = toUpperCase(req[r].body.patientId)

\* C13 as claimed: a valid upload stores the uppercase form of its patientId,
\* and every later search whose query is a part (2 characters or more, in
\* any letter case) of the submitted patientId returns that scan, the scan
\* passing the filters the search carries.
C13_RoundTripAlways ==
  /\ [][StoresUppercaseId]_vars
  /\ [](\A r \in Reqs : \A i \in 1..Len(scans) :
          LET q == req[r]
          IN  (q.route = "search" /\ q.pc = "done" /\ q.user.set
                 /\ Len(q.body.query) >= 2 /\ AlphaNumeric(q.body.query)
                 /\ Contains(scans[i].patientId, toUpperCase(q.body.query))
                 /\ PassesFilters(scans[i], q.body))
                => /\ q.res.status = 200
                   /\ \E j \in 1..Len(q.res.rows) : q.res.rows[j].id = scans[i].id)

\* C13 as amended: a valid upload stores the uppercase form of its patientId,
\* and every later search whose query is a part (2 characters or more, in
\* any letter case) of the submitted patientId returns that scan if the scan
\* passes the filters the search carries, unless the limit (50 if absent)
\* cut the result: then the result holds as many scans as the limit, each at
\* least as recent as that scan.  A search whose limit is not a number is
\* answered 500.
C13_RoundTripUpToLimit ==
  /\ [][StoresUppercaseId]_vars
  /\ [](\A r \in Reqs : \A i \in 1..Len(scans) :
          LET q == req[r]
          IN  (q.route = "search" /\ q.pc = "done" /\ q.user.set
                 /\ Len(q.body.query) >= 2 /\ AlphaNumeric(q.body.query)
                 /\ Contains(scans[i].patientId, toUpperCase(q.body.query))
                 /\ PassesFilters(scans[i], q.body))
                => IF q.body.limit.given /\ parseInt(q.body.limit.val).nan
                     THEN q.res.status = 500 /\ q.res.rows = << >>
                   ELSE /\ q.res.status = 200
                        /\ \/ \E j \in 1..Len(q.res.rows) : q.res.rows[j].id = scans[i].id
                           \/ /\ Len(q.res.rows) = AskedLimit(q.body)
                              /\ \A j \in 1..Len(q.res.rows) :
                                   q.res.rows[j].uploadDate >= scans[i].uploadDate)

C13_Witness ==
  \E r \in Reqs : \E i \in 1..Len(scans) :
    /\ req[r].route = "search" /\ req[r].res.status = 200
    /\ req[r].body.query = <<"B", "c", "1">>
    /\ scans[i].patientId = <<"A", "B", "C", "1", "2", "3">>
    /\ \E j \in 1..Len(req[r].res.rows) : req[r].res.rows[j].id = scans[i].id

\* the row matches the search text: its patientName contains the text
\* ignoring letter case, or its patientId contains the text in uppercase
MatchesSearch(row, text) ==
  \/ Contains(toLowerCase(row.patientName), toLowerCase(text))
  \/ Contains(row.patientId, toUpperCase(text))

\* C14: a search with a valid query returns exactly the scans whose
\* patientName contains the query ignoring case or whose patientId contains
\* its uppercase form, and that equal each filter the request carries, up to
\* the result limit: no other scan is returned, and a matching scan is left
\* out only when the result is as long as the limit.
C14_SearchReturnsMatches ==
  \A r \in Reqs :
    LET q == req[r]
        text == trim(q.body.query)
        wanted == {i \in 1..Len(scans) :
                     MatchesSearch(scans[i], text) /\ PassesFilters(scans[i], q.body)}
    IN  (q.route = "search" /\ q.pc = "done" /\ q.user.set /\ Len(text) >= 2
           /\ ~(q.body.limit.given /\ parseInt(q.body.limit.val).nan))
          => /\ q.res.status = 200
             /\ \A j \in 1..Len(q.res.rows) :
                  \E i \in wanted : scans[i].id = q.res.rows[j].id
             /\ \A i \in wanted :
                  \/ \E j \in 1..Len(q.res.rows) : q.res.rows[j].id = scans[i].id
                  \/ Len(q.res.rows) = AskedLimit(q.body)

\* C15: a search returns at most as many scans as the limit its request
\* carries (none for a limit below 1, or one that is no number), and at most
\* 50 when the request carries no limit.
C15_LimitCapsResult ==
  \A r \in Reqs :
    LET q == req[r]
        limit == parseInt(q.body.limit.val)
    IN  (q.route = "search" /\ q.pc = "done")
          => /\ Len(q.res.rows) = q.res.count
             /\ IF ~q.body.limit.given THEN Len(q.res.rows) <= 50
                ELSE IF limit.nan \/ limit.n < 1 THEN Len(q.res.rows) = 0
                ELSE Len(q.res.rows) <= limit.n

\* C16: a search whose query is absent or has fewer than 2 characters is
\* answered 400 and runs no database query.
C16_ShortQueryRefused ==
  \A r \in Reqs :
    LET q == req[r]
    IN  (q.route = "search" /\ q.pc = "done" /\ q.fx.handler /\ Len(q.body.query) < 2)
          => /\ q.res.status = 400 /\ q.res.error = "Invalid search query"
             /\ q.fx.reads = 0 /\ q.res.rows = << >>

C16_Witness ==
  \E r \in Reqs :
    /\ req[r].route = "search" /\ req[r].pc = "done" /\ req[r].fx.handler
    /\ req[r].body.query = <<"x">> /\ Len(scans) > 0
    /\ req[r].res.status = 400

\* C17: GET /scans/patient/:patientId with a supplied id of 3 characters or
\* more returns the scans whose patientId equals the uppercase form of the id,
\* each once and no others; with a supplied id of fewer than 3 characters it
\* is answered 400 and runs no database query.
C17_PatientLookup ==
  \A r \in Reqs :
    LET q == req[r]
        wanted == {i \in 1..Len(scans) : scans[i].patientId = toUpperCase(q.body.patientId)}
    IN  (q.route = "patient" /\ q.pc = "done" /\ q.fx.handler)
          => IF Len(q.body.patientId) < 3
               THEN q.res.status = 400 /\ q.fx.reads = 0 /\ q.res.rows = << >>
             ELSE /\ q.res.status = 200
                  /\ q.res.count = Cardinality(wanted)
                  /\ Len(q.res.rows) = Cardinality(wanted)
                  /\ \A i \in wanted :
                       \E j \in 1..Len(q.res.rows) :
                         /\ q.res.rows[j].id = scans[i].id
                         /\ q.res.rows[j].patientId = scans[i].patientId
                         /\ q.res.rows[j].patientName = scans[i].patientName

\* two response values are the same value of the same kind (a number is never
\* the same as a text)
SameValue(a, b) == ToString(a) = ToString(b)

\* the scan of a 201 response has, field for field, the values of the row
SameRecord(reply, row) ==
  /\ reply.id = row.id
  /\ reply.patientName = row.patientName
  /\ reply.patientId = row.patientId
  /\ reply.scanType = row.scanType
  /\ reply.region = row.region
  /\ reply.imageUrl = row.imageUrl
  /\ SameValue(reply.uploadDate, row.uploadDate)
  /\ SameValue(reply.uploadedBy, row.uploadedBy)

\* C18: the scan in the 201 response of an upload equals, field for field
\* (id, patientName, patientId, scanType, region, imageUrl, uploadDate and
\* uploadedBy), the row that the request inserted.
C18_ResponseIsPersistedRecord ==
  \A r \in Reqs :
    LET q == req[r]
    IN  (q.route = "upload" /\ q.pc = "done" /\ q.res.status = 201)
          => /\ Len(q.res.scan) = 1
             /\ \E i \in 1..Len(scans) :
                  /\ scans[i].id = q.res.scan[1].id
                  /\ SameRecord(q.res.scan[1], scans[i])

\* what the response and the row do agree on: every field but the upload
\* date and the uploader, of whom the response names the email
ResponseAgreesButDateAndUploader ==
  \A r \in Reqs :
    LET q == req[r]
    IN  (q.route = "upload" /\ q.pc = "done" /\ q.res.status = 201)
          => /\ Len(q.res.scan) = 1
             /\ \E i \in 1..Len(scans) :
                  /\ scans[i].id = q.res.scan[1].id
                  /\ SameRecord([q.res.scan[1] EXCEPT !.uploadedBy = scans[i].uploadedBy,
                                                      !.uploadDate = scans[i].uploadDate],
                                scans[i])
                  /\ q.res.scan[1].uploadDate = toISOString(scans[i].uploadDate)
                  /\ \E u \in users : /\ u.id = scans[i].uploadedBy
                                       /\ u.email = q.res.scan[1].uploadedBy


\* C19: whatever requests are served, the rows of the scans table stay as
\* they are and in place; the table changes only by gaining one row, in the
\* step that answers 201 to the upload of a Technician; and the users table
\* never changes.
C19_InsertOnly ==
  [][/\ users' = users
     /\ Len(scans') >= Len(scans)
     /\ SubSeq(scans', 1, Len(scans)) = scans
     /\ scans' # scans
          => /\ Len(scans') = Len(scans) + 1
             /\ \E r \in Reqs :
                  /\ req[r].route = "upload" /\ req[r].pc = "storage"
                  /\ req[r].user.role = "Technician"
                  /\ req'[r].pc = "done" /\ req'[r].res.status = 201
                  /\ req'[r].res.scan[1].id = scans'[Len(scans')].id]_vars

\* an upload answered 201 and its row is in the table, behind the row that
\* was there at the start
C19_Witness ==
  /\ Len(scans) >= 2
  /\ scans[1] = legacyRow
  /\ \E r \in Reqs : /\ req[r].route = "upload" /\ req[r].res.status = 201
                      /\ req[r].res.scan[1].id = scans[Len(scans)].id


\* the row carries what the upload request sent
RowOfRequest(row, q) ==
  /\ row.patientName = trim(q.body.patientName)
  /\ row.patientId = toUpperCase(q.body.patientId)
  /\ row.scanType = q.body.scanType
  /\ row.region = q.body.region

\* C20: an upload whose image is stored is answered 201 and adds a row of
\* its own, also when a row with the same patientName, patientId, scanType
\* and region is in the table; the new row's id is larger than every id in
\* the table, so ids are distinct and grow with the order of the inserts; and
\* no upload is answered 409.
C20_NotIdempotent ==
  /\ [](\A i, j \in 1..Len(scans) : i < j => scans[i].id < scans[j].id)
  /\ [](\A r \in Reqs : req[r].res.status # 409)
  /\ [][\A r \in Reqs :
          (req[r].pc = "storage" /\ req'[r].upload = "resolved")
            => /\ req'[r].pc = "done" /\ req'[r].res.status = 201
               /\ Len(scans') = Len(scans) + 1
               /\ SubSeq(scans', 1, Len(scans)) = scans
               /\ RowOfRequest(scans'[Len(scans')], req[r])
               /\ req'[r].res.scan[1].id = scans'[Len(scans')].id
               /\ \A i \in 1..Len(scans) : scans[i].id < scans'[Len(scans')].id]_vars

\* two uploads of the same patient, scan and image, both answered 201, left
\* two rows
C20_Witness ==
  \E i, j \in 1..Len(scans) :
    /\ i < j
    /\ scans[i].patientName = scans[j].patientName
    /\ scans[i].patientId = scans[j].patientId
    /\ scans[i].scanType = scans[j].scanType
    /\ scans[i].region = scans[j].region
    /\ scans[i].uploadedBy = scans[j].uploadedBy
    /\ scans[i].id < scans[j].id
    /\ \E r \in Reqs : /\ req[r].route = "upload" /\ req[r].res.status = 201
                        /\ req[r].res.scan[1].id = scans[j].id


\* C21: a request that presents a token login issued at time T is accepted
\* when it is made before T + 24 hours and refused with 401 "Token expired"
\* when it is made after T + 24 hours, whatever else the server has done in
\* between.
C21_ValidForADay ==
  \A r \in Reqs :
    LET q == req[r]
        k == PresentedToken(q)
    IN  (q.route \in AuthRoutes /\ q.pc # "idle" /\ k \in LoginTokens(q.at))
          => /\ q.at < k.iat + TokenTTL => Accepted(q)
             /\ q.at > k.iat + TokenTTL
                  => Refused(q, 401) /\ q.res.error = "Token expired"

\* a token issued after the start is accepted at an hour at which the tokens
\* of the start are no longer
C21_Witness ==
  \E r \in Reqs :
    LET q == req[r]
        k == PresentedToken(q)
    IN  /\ q.route \in AuthRoutes /\ q.pc = "done" /\ k \in LoginTokens(q.at)
        /\ k.iat > 0 /\ q.at > k.iat /\ q.at >= TokenTTL /\ q.at < k.iat + TokenTTL
        /\ Accepted(q)

\* a token login issued is refused as expired more than 24 hours later
C21_WitnessExpired ==
  \E r \in Reqs :
    LET q == req[r]
        k == PresentedToken(q)
    IN  /\ q.route \in AuthRoutes /\ q.pc = "done" /\ k \in LoginTokens(q.at)
        /\ q.at > k.iat + TokenTTL /\ q.res.error = "Token expired"


\* C22: a logout empties the browser's storage and changes nothing on the
\* server (no request is sent, no table and no server state changes); a
\* request that presents the removed token before its expiry is
\* authenticated with the token's identity and authorized by the token's
\* role as any request with that token is.
C22_LogoutIsClientSide ==
  /\ [][(browser.token # NoToken /\ browser'.token = NoToken)
          => /\ browser'.user = NoUser
             /\ UNCHANGED <<users, scans, seq, assets, now, req, server>>]_vars
  /\ [](\A r \in Reqs :
          LET q == req[r]
              k == PresentedToken(q)
          IN  (q.route \in AuthRoutes /\ q.pc = "done" /\ k.form = "jwt"
                 /\ k = browser.removed /\ q.at < k.exp)
                => /\ Accepted(q)
                   /\ q.route \in ProtectedRoutes
                        => q.res.status = (IF k.role \in AllowedRoles(q.route)
                                             THEN 200 ELSE 403))

\* after a logout, at a later hour, a request with the removed token was
\* served its data
C22_Witness ==
  \E r \in Reqs :
    LET q == req[r]
    IN  /\ browser.token = NoToken /\ browser.removed.form = "jwt"
        /\ q.route \in ProtectedRoutes /\ q.pc = "done"
        /\ PresentedToken(q) = browser.removed
        /\ q.at > browser.removedAt
        /\ q.res.status = 200 /\ q.fx.handler


\* the roles of the accounts of a users table, as a bag
RolesOf(usersTbl, role) == Cardinality({u \in usersTbl : u.role = role})

\* C23: a run of init.js on an empty users table leaves exactly two users,
\* one Technician and one Dentist; a run on a users table that holds rows
\* leaves the table as it is.
C23_SeedsOnce ==
  [][server'.inits = server.inits + 1
       => IF users = {}
            THEN /\ Cardinality(users') = 2
                 /\ RolesOf(users', "Technician") = 1
                 /\ RolesOf(users', "Dentist") = 1
            ELSE users' = users]_vars

\* init.js ran twice on a database that was new, and the two seeded accounts
\* are the users table
C23_Witness ==
  /\ server.inits >= 2
  /\ seedLog \subseteq server.console
  /\ skipLog \subseteq server.console
  /\ users = SeededUsers

\* the word is the plaintext password of an account of the users table
IsPlaintextPassword(w) == \E u \in users : bcryptHash(w) = u.password

\* C24: the users table holds password hashes only, no line of the console
\* holds the plaintext password of a user, and no response body does.
C24_NoPlaintextPassword ==
  /\ \A u \in users : u.password.alg = "bcrypt"
  /\ \A line \in server.console :
       \A i \in 1..Len(line) : ~IsPlaintextPassword(line[i])
  /\ \A r \in Reqs :
       \A c \in req[r].res.credentials : ~IsPlaintextPassword(c.password)

\* the part of C24 about the users table alone
PasswordsStoredHashed ==
  \A u \in users : u.password.alg = "bcrypt"



\* the sum of the counts of a GROUP BY result
RECURSIVE SumOfCounts(_)
SumOfCounts(groups) ==
  IF groups = << >> THEN 0 ELSE Head(groups).count + SumOfCounts(Tail(groups))

\* C25: the statistics of a 200 response of GET /scans/stats describe the
\* scans table of the call: totalScans is the number of rows, the counts by
\* region and the counts by scan type each sum to totalScans, uniquePatients
\* is the number of distinct patientId values, recentUploads is at most
\* totalScans, and topUploaders has at most 5 entries with upload counts
\* that never increase.
C25_StatisticsConsistent ==
  \A r \in Reqs :
    LET q == req[r]
        st == q.res.statistics
    IN  (q.route = "stats" /\ q.pc = "done" /\ q.fx.handler)
          => /\ q.res.status = 200
             /\ st.totalScans = Len(scans)
             /\ SumOfCounts(st.scansByRegion) = st.totalScans
             /\ SumOfCounts(st.scansByScanType) = st.totalScans
             /\ st.uniquePatients = Cardinality({scans[i].patientId : i \in 1..Len(scans)})
             /\ st.recentUploads <= st.totalScans
             /\ Len(st.topUploaders) <= 5
             /\ \A i, j \in 1..Len(st.topUploaders) :
                  i < j => st.topUploaders[i].uploadCount >= st.topUploaders[j].uploadCount

\* statistics of the clinic's table: more uploaders than the list shows,
\* several scans per patient, scans older than a week
C25_Witness ==
  \E r \in Reqs :
    LET q == req[r]
        st == q.res.statistics
    IN  /\ q.route = "stats" /\ q.pc = "done" /\ q.res.status = 200
        /\ st.totalScans >= 10
        /\ Len(st.topUploaders) = 5
        /\ st.topUploaders[1].uploadCount > st.topUploaders[5].uploadCount
        /\ st.uniquePatients < st.totalScans
        /\ st.recentUploads < st.totalScans
        /\ Len(st.scansByRegion) = 3



\* C26: however the steps of the uploads of different technicians
\* interleave, an upload whose image is stored is answered 201, the row it
\* is answered with records its own requester as uploadedBy, and two uploads
\* are answered with two different rows.
C26_UploadsDoNotContend ==
  /\ [][\A r \in Reqs :
          (req[r].pc = "storage" /\ req'[r].upload = "resolved")
            => req'[r].pc = "done" /\ req'[r].res.status = 201]_vars
  /\ [](\A r \in Reqs :
          LET q == req[r]
          IN  (q.route = "upload" /\ q.pc = "done" /\ q.res.status = 201)
                => /\ q.user.id = PresentedToken(q).id
                   /\ Cardinality({i \in 1..Len(scans) :
                                     scans[i].id = q.res.scan[1].id}) = 1
                   /\ \A i \in 1..Len(scans) :
                        scans[i].id = q.res.scan[1].id => scans[i].uploadedBy = q.user.id)
  /\ [](\A r1, r2 \in Reqs :
          (/\ r1 # r2
           /\ req[r1].route = "upload" /\ req[r1].res.status = 201
           /\ req[r2].route = "upload" /\ req[r2].res.status = 201)
            => req[r1].res.scan[1].id # req[r2].res.scan[1].id)

\* two technicians were answered 201 on two connections, each with a row of
\* its own, the row of the second connection inserted first
C26_Witness ==
  \E r1, r2 \in Reqs :
    /\ r1 < r2
    /\ req[r1].route = "upload" /\ req[r1].res.status = 201
    /\ req[r2].route = "upload" /\ req[r2].res.status = 201
    /\ req[r1].user.id # req[r2].user.id
    /\ \E i, j \in 1..Len(scans) :
         /\ scans[i].id = req[r1].res.scan[1].id /\ scans[i].uploadedBy = req[r1].user.id
         /\ scans[j].id = req[r2].res.scan[1].id /\ scans[j].uploadedBy = req[r2].user.id
         /\ i > j



\* the routes that answer with a list of scans
ListRoutes == {"scans", "patient", "search", "history"}

\* C27: in the list of a 200 response of GET /scans/, GET
\* /scans/patient/:patientId, GET /scans/search and GET /upload/history a
\* scan listed before another has an uploadDate that is not earlier.
C27_NewestFirst ==
  \A r \in Reqs :
    LET q == req[r]
    IN  (q.route \in ListRoutes /\ q.pc = "done" /\ q.res.status = 200)
          => \A i, j \in 1..Len(q.res.rows) :
               i < j => q.res.rows[i].uploadDate >= q.res.rows[j].uploadDate

\* a list of two scans uploaded at different hours, the later upload first
C27_Witness ==
  \E r \in Reqs :
    LET q == req[r]
    IN  /\ q.route \in ListRoutes /\ q.pc = "done" /\ q.res.status = 200
        /\ Len(q.res.rows) >= 2
        /\ q.res.rows[1].uploadDate > q.res.rows[2].uploadDate
        /\ q.res.rows[1].id > q.res.rows[2].id



\* the request handleSearch sends for the text with both selectors at Any
AnySearch(text) ==
  searchScans(trim(text), handleSearchFilters([search |-> text, region |-> "", scanType |-> ""]))

\* C28: a search sent from the dashboard with both selectors at Any is
\* answered with no region and no scanType filter applied and with every
\* scan whose patientName or patientId contains the typed text.
C28_AnyMeansNoFilter ==
  \A r \in Reqs :
    \A form \in {f \in DashboardForms : handleSearchSends(f)} :
      LET q == req[r]
      IN  (q.route = "search" /\ q.pc = "done" /\ q.body = AnySearch(form.search))
            => /\ q.res.status = 200
               /\ q.res.filters = [region |-> "", scanType |-> ""]
               /\ \A i \in 1..Len(scans) :
                    MatchesSearch(scans[i], trim(form.search))
                      => \E j \in 1..Len(q.res.rows) : q.res.rows[j].id = scans[i].id

\* a search from the dashboard with a region and a scan type selected is
\* answered with the matching scans of that region and type
SelectedFiltersApply ==
  \A r \in Reqs :
    \A form \in {f \in DashboardForms : handleSearchSends(f)} :
      LET q == req[r]
          sent == searchScans(trim(form.search), handleSearchFilters(form))
      IN  (q.route = "search" /\ q.pc = "done" /\ q.body = sent
             /\ form.region # "" /\ form.scanType # "")
            => /\ q.res.status = 200
               /\ \A i \in 1..Len(scans) :
                    (MatchesSearch(scans[i], trim(form.search))
                       /\ scans[i].region = form.region /\ scans[i].scanType = form.scanType)
                      => \E j \in 1..Len(q.res.rows) : q.res.rows[j].id = scans[i].id



\* C29: an upload request is answered once, when it is done; the scans
\* table gains a row only in the step that answers 201 to an upload, and the
\* step that answers an upload anything else (400, 401, 403, 409, 500)
\* leaves the table as it is, as do the steps before the answer.
C29_CreatedIffInserted ==
  /\ [](\A r \in Reqs :
          req[r].route = "upload"
            => req[r].fx.sent = (IF req[r].pc = "done" THEN 1 ELSE 0))
  /\ [][\A r \in Reqs :
          (req'[r].route = "upload" /\ req'[r] # req[r])
            => IF req'[r].pc = "done" /\ req'[r].res.status = 201
                 THEN /\ scans' = Append(scans, scans'[Len(scans')])
                      /\ scans'[Len(scans')].id = req'[r].res.scan[1].id
                      /\ req'[r].fx.writes = 1
                 ELSE scans' = scans /\ req'[r].fx.writes = 0]_vars

\* an upload was answered 201 with its row, after an upload whose image
\* was stored was answered 500 and left no row
C29_Witness ==
  \E r \in Reqs :
    /\ req[r].route = "upload" /\ req[r].pc = "done" /\ req[r].res.status = 201
    /\ req[r].fx.sent = 1
    /\ scans[Len(scans)].id = req[r].res.scan[1].id
    /\ assets > Len(scans)



\* the states the claim starts from: no token, a token past its expiry by
\* the browser's clock, or one the server answers 401 or 403
GuardedFrom(b, t) ==
  \/ b.token = NoToken
  \/ ~isAuthenticated(b, t).ok
  \/ verifyTokenRoute(NewReq("verify-token", Header("Bearer", b.token), NoBody, t), t).res.status
        \in {401, 403}

\* the login page with the storage empty, or the dashboard of the stored role
GuardEnded(b) ==
  /\ b.pc = "idle"
  /\ \/ b.page = "login" /\ b.token = NoToken /\ b.user = NoUser
     \/ b.page \in {"/technician", "/dentist"} /\ b.page = Dashboard(b.user.role)

====
